---- MODULE Spec2Model ----
(***************************************************************************)
(* TermNest SSH session engine: the thread-based SshManager of             *)
(* src-tauri/src/ssh_new.rs (registry, SshConnection, its reader, writer   *)
(* and input-coalescer threads) driven by the commands of                  *)
(* src-tauri/src/lib.rs (connect_ssh, disconnect_session,                  *)
(* send_terminal_input).                                                   *)
(*                                                                         *)
(* A String / Vec<u8> is a sequence of byte values.  Time is the age of    *)
(* an Instant, in milliseconds, advanced by Tick in steps of TickMs.       *)
(***************************************************************************)
EXTENDS Integers, Sequences, FiniteSets, TLC

\* ------------------------------------------------------------------ bounds
\* Number of SshConnection objects ever constructed.
MaxConns == 2
\* Number of strings send_input has accepted for the live connections.
MaxSends == 2
\* Number of non-empty reads the readers perform.
MaxReads == 2
\* Granularity of the clock, in milliseconds.
TickMs == 150
\* Number of window-change requests sent per terminal.
MaxResizes == 2

\* ------------------------------------------------------- program constants
\* flush_interval of the input thread, in milliseconds.
FlushIntervalMs == 100
\* buffer.len() threshold of the input thread, in bytes.
FlushSizeBytes == 1024
\* size of the reader's buffer, in bytes.
ReadBufferBytes == 4096

Ids == {"s1", "s2"}
Conns == 1..MaxConns
\* connections.get(id) = None
NoConn == 0

\* U+FFFD REPLACEMENT CHARACTER, as the UTF-8 bytes a String holds.
Replacement == <<239, 191, 189>>

\* The chunks a read of the session's channel can return (what the remote
\* shell sends): for s1 the two bytes of U+00E9, one per read, for s2 an
\* ASCII byte; the two channels carry different bytes.
ChannelChunks(id) ==
    IF id = "s1" THEN {<<195>>, <<169>>} ELSE {<<98>>}

\* The strings the UI passes to send_input for a session.
Keystrokes(id) ==
    IF id = "s1" THEN {<<97>>, <<65>>} ELSE {<<122>>}

\* ----------------------------------------------------------------- helpers
RECURSIVE Concat(_)
\* The concatenation of a sequence of byte strings.
Concat(ss) == IF ss = <<>> THEN <<>> ELSE Head(ss) \o Concat(Tail(ss))

IsPrefix(p, s) == Len(p) <= Len(s) /\ SubSeq(s, 1, Len(p)) = p

Min(a, b) == IF a < b THEN a ELSE b

\* String::from_utf8_lossy(..).to_string(), on byte values below 0xE0:
\* ASCII and well-formed two-byte sequences are kept, every other byte
\* (a lead byte without its continuation, a stray continuation byte)
\* becomes U+FFFD.
RECURSIVE from_utf8_lossy(_)
from_utf8_lossy(bytes) ==
    IF bytes = <<>> THEN <<>>
    ELSE LET b == Head(bytes) IN
         IF b < 128 THEN <<b>> \o from_utf8_lossy(Tail(bytes))
         ELSE IF /\ b >= 194 /\ b <= 223 /\ Len(bytes) >= 2
                 /\ bytes[2] >= 128 /\ bytes[2] <= 191
              THEN <<b, bytes[2]>> \o from_utf8_lossy(Tail(Tail(bytes)))
              ELSE Replacement \o from_utf8_lossy(Tail(bytes))

\* ------------------------------------------------------------------- state
VARIABLES
    \* SshManager.connections: session id -> SshConnection (NoConn: absent)
    connections,
    \* the holder of the connections mutex while it closes a connection
    closer,
    \* AppState.active_connections: session id -> ConnectionStatus
    active_connections,
    \* position of the connect_ssh / disconnect_session command of each id
    connect_pc, connect_new, disconnect_pc,
    \* SshConnection fields
    session_id, reader_shutdown, writer_shutdown, input_shutdown,
    reader_handle, writer_handle, input_handle,
    \* how many times each thread handle of a connection has been joined
    joins,
    \* the reader thread: position, why it left its loop, the chunks its
    \* reads returned (per session) and the "terminal-data" events the UI
    \* received (per session_id tag)
    reader_pc, reader_exit, channel_in, terminal_data,
    \* the writer thread: position, why it left its loop, writer_tx/writer_rx
    \* and the bytes written to the ssh2 channel
    writer_pc, writer_exit, writer_rx, channel_out,
    \* the input thread: position, input_tx/input_rx, its buffer, the age of
    \* last_flush and the items it has put on the writer queue
    input_pc, input_rx, buffer, flush_age, enqueued,
    \* the strings send_input accepted, the age of the last one and whether
    \* all of them came less than a flush interval apart
    accepted, key_age, rapid

\* lib.rs run(): the second SshManager, the one handed to app.manage and
\* reached by the ssh_* commands through State<Arc<SshManager>>: the keys of
\* its registry, and the reply of the last ssh_* command
VARIABLES managed_connections, reply

\* ssh.rs, the SshManager that reports its progress as "connection_status"
\* events: its registry, and of the connect call in progress its position,
\* its argument, the key files that exist on disk, the locals auth_success,
\* key_found and sftp, the keys its fallback loop has still to visit and
\* session.authenticated(); then the credentials tried so far, the events
\* emitted, the value connect returned, the bytes written to each channel
\* and the reply of the last send_input, list_directory or disconnect
VARIABLES
    ssh_connections, ssh_pc, app_session, key_files, auth_success,
    key_found, sftp, common_keys, authenticated, attempts, status_events,
    ssh_result, ssh_channel, ssh_reply

\* ssh/session.rs and ssh/terminal.rs: the entries of SessionManager, which
\* call holds a session's write lock ("idle": none), the size an
\* SshTerminal records, who holds its channel mutex, where its read task
\* is, whether the remote side still has the channel open, the
\* window-change requests sent and the reply of the last manager call
VARIABLES
    sessions, term_pc, term_size, channel_mutex, read_task, channel_open,
    window_changes, term_reply,
    \* the inputs queued for the write task of an SshTerminal, where that
    \* task is, and the inputs it has passed to channel.data
    input_receiver, write_task, channel_data

\* ssh_new.rs, the channel mutex of one connection seen statement by
\* statement: who holds shared_channel, where the reader and the writer
\* thread are, the items on the writer queue, the shutdown flags of the two
\* threads, and for each thread waiting in lock() how many calls of the
\* other thread it has waited through
VARIABLES shared_channel, reader_at, writer_at, queued, pump_shutdown, waited

\* ssh.rs, the terminal reader tasks connect has spawned for each id, oldest
\* first (where each task is and whether the channel of its connection is
\* still Some), and how many "terminal_output" events each id has received
VARIABLES reader_tasks, terminal_output

regVars == <<connections, closer>>
cmdVars == <<active_connections, connect_pc, connect_new, disconnect_pc>>
flagVars == <<reader_shutdown, writer_shutdown, input_shutdown>>
handleVars == <<reader_handle, writer_handle, input_handle, joins>>
readerVars == <<reader_pc, reader_exit, channel_in, terminal_data>>
writerVars == <<writer_pc, writer_exit, writer_rx, channel_out>>
inputVars == <<input_pc, input_rx, buffer, flush_age, enqueued>>
sendVars == <<accepted, key_age, rapid>>
appVars == <<managed_connections, reply>>
\* AppState.ssh_manager and its connections
coreVars == <<regVars, cmdVars, session_id, flagVars, handleVars,
              readerVars, writerVars, inputVars, sendVars>>
\* everything else
callVars == <<ssh_pc, app_session, key_files, auth_success, key_found, sftp,
              common_keys, authenticated, attempts, status_events,
              ssh_result>>
sshVars == <<ssh_connections, callVars, ssh_channel, ssh_reply>>
writeVars == <<input_receiver, write_task, channel_data>>
termVars == <<sessions, term_pc, term_size, channel_mutex, read_task,
              channel_open, window_changes, term_reply, writeVars>>
chanVars == <<shared_channel, reader_at, writer_at, queued, pump_shutdown,
              waited>>
taskVars == <<reader_tasks, terminal_output>>
extVars == <<appVars, sshVars, termVars, chanVars, taskVars>>
\* what the ssh_* commands leave alone
notAppVars == <<coreVars, sshVars, termVars, chanVars, taskVars>>
\* what ssh.rs leaves alone
notSshVars == <<coreVars, appVars, termVars, chanVars, taskVars>>
\* what ssh.rs and its reader tasks leave alone
notTaskVars == <<coreVars, appVars, termVars, chanVars>>
\* what ssh/ leaves alone
notTermVars == <<coreVars, appVars, sshVars, chanVars, taskVars>>
\* what the threads of the channel view leave alone
notChanVars == <<coreVars, appVars, sshVars, termVars, taskVars>>
vars == <<coreVars, extVars>>

NoReply == [cmd |-> "none", id |-> "none", ok |-> TRUE, list |-> {}]

\* SshConnection::new has spawned the reader and the writer: both are at
\* their loop test, the channel mutex is free, nothing is queued.
ChanInit ==
    /\ shared_channel = "free"
    /\ reader_at = "loop"
    /\ writer_at = "loop"
    /\ queued = 0
    /\ pump_shutdown = FALSE
    /\ waited = [reader |-> 0, writer |-> 0]

NoSession == [id |-> "none", auth_method |-> "none"]
NoResult == [ok |-> TRUE, err |-> "pending", tried |-> <<>>]
NoSshReply == [op |-> "none", id |-> "none", ok |-> TRUE, err |-> "none",
               status |-> "none"]
NoSshConn == [present |-> FALSE, channel |-> FALSE, sftp |-> FALSE,
              reader_started |-> FALSE]

\* ssh.rs SshManager::new: an empty registry, no call made yet.
SshInit ==
    /\ ssh_connections = [i \in Ids |-> NoSshConn]
    /\ ssh_pc = "idle"
    /\ app_session = NoSession
    /\ key_files = {}
    /\ auth_success = FALSE
    /\ key_found = FALSE
    /\ sftp = FALSE
    /\ common_keys = <<>>
    /\ authenticated = FALSE
    /\ attempts = <<>>
    /\ status_events = <<>>
    /\ ssh_result = NoResult
    /\ ssh_channel = [i \in Ids |-> <<>>]
    /\ ssh_reply = NoSshReply

\* No reader task spawned, no output event emitted.
TaskInit ==
    /\ reader_tasks = [i \in Ids |-> <<>>]
    /\ terminal_output = [i \in Ids |-> 0]

NoActiveSession ==
    [present |-> FALSE, kind |-> "none", status |-> "none",
     terminal |-> "None"]
NoTermReply == [op |-> "none", id |-> "none", ok |-> TRUE, err |-> "none"]

\* SessionManager::new: no session.
TermInit ==
    /\ sessions = [i \in Ids |-> NoActiveSession]
    /\ term_pc = [i \in Ids |-> "idle"]
    /\ term_size = [i \in Ids |-> "none"]
    /\ channel_mutex = [i \in Ids |-> "free"]
    /\ read_task = [i \in Ids |-> "none"]
    /\ channel_open = [i \in Ids |-> FALSE]
    /\ window_changes = [i \in Ids |-> <<>>]
    /\ term_reply = NoTermReply
    /\ input_receiver = [i \in Ids |-> <<>>]
    /\ write_task = [i \in Ids |-> "none"]
    /\ channel_data = [i \in Ids |-> <<>>]

\* run(): SshManager::new for the managed manager.
AppInit ==
    /\ managed_connections = {}
    /\ reply = NoReply

NoCloser == [kind |-> "none"]

\* The registry mutex is free (no caller is inside close() under it).
RegistryFree == closer.kind = "none"

\* SshManager::new, AppState::new: empty maps, no connection constructed.
Init ==
    /\ connections = [i \in Ids |-> NoConn]
    /\ closer = NoCloser
    /\ active_connections = [i \in Ids |-> "Absent"]
    /\ connect_pc = [i \in Ids |-> "idle"]
    /\ connect_new = [i \in Ids |-> NoConn]
    /\ disconnect_pc = [i \in Ids |-> "idle"]
    /\ session_id = [c \in Conns |-> "none"]
    /\ reader_shutdown = [c \in Conns |-> FALSE]
    /\ writer_shutdown = [c \in Conns |-> FALSE]
    /\ input_shutdown = [c \in Conns |-> FALSE]
    /\ reader_handle = [c \in Conns |-> FALSE]
    /\ writer_handle = [c \in Conns |-> FALSE]
    /\ input_handle = [c \in Conns |-> FALSE]
    /\ joins = [c \in Conns |-> [reader |-> 0, writer |-> 0, input |-> 0]]
    /\ reader_pc = [c \in Conns |-> "none"]
    /\ reader_exit = [c \in Conns |-> "none"]
    /\ channel_in = [i \in Ids |-> <<>>]
    /\ terminal_data = [i \in Ids |-> <<>>]
    /\ writer_pc = [c \in Conns |-> "none"]
    /\ writer_exit = [c \in Conns |-> "none"]
    /\ writer_rx = [c \in Conns |-> <<>>]
    /\ channel_out = [c \in Conns |-> <<>>]
    /\ input_pc = [c \in Conns |-> "none"]
    /\ input_rx = [c \in Conns |-> <<>>]
    /\ buffer = [c \in Conns |-> <<>>]
    /\ flush_age = [c \in Conns |-> 0]
    /\ enqueued = [c \in Conns |-> <<>>]
    /\ accepted = [c \in Conns |-> <<>>]
    /\ key_age = [c \in Conns |-> 0]
    /\ rapid = [c \in Conns |-> TRUE]
    /\ AppInit
    /\ SshInit
    /\ TaskInit
    /\ TermInit
    /\ ChanInit

\* ------------------------------------------------------------ the registry
\* connections.insert(session_id, connection): the entry of id is replaced.
HashMapInsert(map, id, c) == [map EXCEPT ![id] = c]

\* connections.remove(session_id)
HashMapRemove(map, id) == [map EXCEPT ![id] = NoConn]

\* The caller starts close() on connection c holding the registry mutex:
\* disconnect calls close() itself, connect's insert drops the displaced
\* connection and Drop calls close().
StartClose(kind, id, c) ==
    [kind |-> kind, id |-> id, c |-> c, pc |-> "store_reader",
     call |-> IF kind = "disconnect" THEN "close" ELSE "drop"]

\* ------------------------------------------------ connect_ssh (lib.rs)
\* connect_ssh up to the call of ssh_manager.connect: the status of the
\* session becomes Connecting.  The UI has one connect_ssh per session in
\* flight.
ConnectSshBegin(id) ==
    /\ connect_pc[id] = "idle"
    /\ connect_pc' = [connect_pc EXCEPT ![id] = "connecting"]
    /\ active_connections' = [active_connections EXCEPT ![id] = "Connecting"]
    /\ UNCHANGED <<extVars,
                 regVars, connect_new, disconnect_pc, session_id, flagVars,
                   handleVars, readerVars, writerVars, inputVars, sendVars>>

\* A connect that fails after it has taken the entry of its id out of the
\* registry.
ManagerConnectErrEvicts(id) ==
    /\ connect_pc[id] = "connecting"
    /\ connect_pc' = [connect_pc EXCEPT ![id] = "err"]
    /\ connections' = HashMapRemove(connections, id)
    /\ UNCHANGED <<extVars,
                 closer, active_connections, connect_new, disconnect_pc,
                   session_id, flagVars, handleVars, readerVars, writerVars,
                   inputVars, sendVars>>

\* SshManager::connect returns Err: TcpStream::connect, handshake,
\* authentication, channel_session, request_pty or shell failed.  Nothing of
\* the manager has been touched.
ManagerConnectErr(id) ==
    /\ connect_pc[id] = "connecting"
    /\ connect_pc' = [connect_pc EXCEPT ![id] = "err"]
    /\ UNCHANGED <<extVars,
                 regVars, active_connections, connect_new, disconnect_pc,
                   session_id, flagVars, handleVars, readerVars, writerVars,
                   inputVars, sendVars>>

\* The connection SshConnection::new constructs next.
FreshConn == CHOOSE c \in Conns :
                /\ session_id[c] = "none"
                /\ \A d \in Conns : session_id[d] = "none" => c <= d

\* SshManager::connect through SshConnection::new: the session is
\* authenticated, the channel is open and non-blocking, the three threads
\* are spawned with clear shutdown flags and empty queues.
ManagerConnectSpawn(id) ==
    /\ connect_pc[id] = "connecting"
    /\ \E c \in Conns : session_id[c] = "none"
    /\ LET c == FreshConn IN
       /\ connect_pc' = [connect_pc EXCEPT ![id] = "spawned"]
       /\ connect_new' = [connect_new EXCEPT ![id] = c]
       /\ session_id' = [session_id EXCEPT ![c] = id]
       /\ reader_handle' = [reader_handle EXCEPT ![c] = TRUE]
       /\ writer_handle' = [writer_handle EXCEPT ![c] = TRUE]
       /\ input_handle' = [input_handle EXCEPT ![c] = TRUE]
       /\ joins' = joins
       /\ reader_pc' = [reader_pc EXCEPT ![c] = "running"]
       /\ writer_pc' = [writer_pc EXCEPT ![c] = "running"]
       /\ input_pc' = [input_pc EXCEPT ![c] = "running"]
       /\ flush_age' = [flush_age EXCEPT ![c] = 0]
    /\ UNCHANGED <<extVars,
                 regVars, active_connections, disconnect_pc, flagVars,
                   reader_exit, channel_in, terminal_data, writer_exit,
                   writer_rx, channel_out, input_rx, buffer, enqueued,
                   sendVars>>

\* SshManager::connect, "Store connection": under the registry mutex the new
\* connection is inserted.  insert returns the connection the id held
\* before, and that temporary is dropped (Drop calls close) before the mutex
\* is released; with no previous entry connect returns Ok at once.
ManagerConnectStore(id) ==
    /\ connect_pc[id] = "spawned"
    /\ RegistryFree
    /\ connections' = HashMapInsert(connections, id, connect_new[id])
    /\ connect_new' = [connect_new EXCEPT ![id] = NoConn]
    /\ IF connections[id] = NoConn
       THEN /\ connect_pc' = [connect_pc EXCEPT ![id] = "ok"]
            /\ closer' = closer
       ELSE /\ connect_pc' = [connect_pc EXCEPT ![id] = "dropping"]
            /\ closer' = StartClose("connect", id, connections[id])
    /\ UNCHANGED <<extVars,
                 active_connections, disconnect_pc, session_id, flagVars,
                   handleVars, readerVars, writerVars, inputVars, sendVars>>

\* connect_ssh, the Ok arm: the status becomes Connected.
ConnectSshOk(id) ==
    /\ connect_pc[id] = "ok"
    /\ connect_pc' = [connect_pc EXCEPT ![id] = "idle"]
    /\ active_connections' = [active_connections EXCEPT ![id] = "Connected"]
    /\ UNCHANGED <<extVars,
                 regVars, connect_new, disconnect_pc, session_id, flagVars,
                   handleVars, readerVars, writerVars, inputVars, sendVars>>

\* connect_ssh, the Err arm: the status becomes Error(message).
ConnectSshErr(id) ==
    /\ connect_pc[id] = "err"
    /\ connect_pc' = [connect_pc EXCEPT ![id] = "idle"]
    /\ active_connections' = [active_connections EXCEPT ![id] = "Error"]
    /\ UNCHANGED <<extVars,
                 regVars, connect_new, disconnect_pc, session_id, flagVars,
                   handleVars, readerVars, writerVars, inputVars, sendVars>>

\* ------------------------------------------- disconnect_session (lib.rs)
\* A disconnect that answers Ok for an id the registry does not hold.
DisconnectAbsentOk == "ok"

\* What SshManager::disconnect returns for an id the registry does not
\* hold: Err(anyhow!("Session not found: {}", session_id)).
DisconnectAbsent == "err"

\* SshManager::disconnect takes the registry mutex and removes the entry.
\* Without an entry it returns Err("Session not found") and
\* disconnect_session returns it, leaving the status alone; with one it
\* calls close() on the removed connection, still holding the mutex.
ManagerDisconnect(id) ==
    /\ disconnect_pc[id] = "idle"
    /\ RegistryFree
    /\ IF connections[id] = NoConn
       THEN /\ disconnect_pc' =
                 [disconnect_pc EXCEPT ![id] = DisconnectAbsent]
            /\ UNCHANGED <<connections, closer>>
       ELSE /\ connections' = HashMapRemove(connections, id)
            /\ closer' = StartClose("disconnect", id, connections[id])
            /\ disconnect_pc' = [disconnect_pc EXCEPT ![id] = "closing"]
    /\ UNCHANGED <<extVars,
                 active_connections, connect_pc, connect_new, session_id,
                   flagVars, handleVars, readerVars, writerVars, inputVars,
                   sendVars>>

\* disconnect_session after ssh_manager.disconnect returned Ok: the status
\* becomes Disconnected.
DisconnectSessionOk(id) ==
    /\ disconnect_pc[id] = "ok"
    /\ disconnect_pc' = [disconnect_pc EXCEPT ![id] = "idle"]
    /\ active_connections' = [active_connections EXCEPT ![id] = "Disconnected"]
    /\ UNCHANGED <<extVars,
                 regVars, connect_pc, connect_new, session_id, flagVars,
                   handleVars, readerVars, writerVars, inputVars, sendVars>>

\* disconnect_session, the `?` after ssh_manager.disconnect: the error is
\* returned to the caller and the status is not written.
DisconnectSessionErr(id) ==
    /\ disconnect_pc[id] = "err"
    /\ disconnect_pc' = [disconnect_pc EXCEPT ![id] = "idle"]
    /\ UNCHANGED <<extVars,
                 regVars, active_connections, connect_pc, connect_new,
                   session_id, flagVars, handleVars, readerVars, writerVars,
                   inputVars, sendVars>>

\* ------------------------------------------------- SshConnection::close
\* A close() that waits for the input thread first and the reader last.
JoinOrderInputFirst == <<"join_input", "join_writer", "join_reader">>

\* The order in which close() waits for the three threads.
JoinOrder == <<"join_reader", "join_writer", "join_input">>

\* A close() that sets the three flags and returns without joining.
NextClosePcNoJoin(pc) ==
    CASE pc = "store_reader" -> "store_writer"
      [] pc = "store_writer" -> "store_input"
      [] OTHER -> "done"

\* A close() that leaves the input thread's flag clear.
NextClosePcNoInputStore(pc) ==
    CASE pc = "store_reader" -> "store_writer"
      [] pc = "store_writer" -> JoinOrder[1]
      [] pc = JoinOrder[1] -> JoinOrder[2]
      [] pc = JoinOrder[2] -> JoinOrder[3]
      [] OTHER -> "done"

\* The step of close() after `pc`: the three stores, then the three joins.
NextClosePc(pc) ==
    CASE pc = "store_reader" -> "store_writer"
      [] pc = "store_writer" -> "store_input"
      [] pc = "store_input" -> JoinOrder[1]
      [] pc = JoinOrder[1] -> JoinOrder[2]
      [] pc = JoinOrder[2] -> JoinOrder[3]
      [] OTHER -> "done"

\* The position of a thread whose shutdown flag has just been stored: a
\* thread in its loop may have loaded the flag before the store, and then
\* finishes the iteration it is in before it sees the flag.
AfterStore(pc) == IF pc = "running" THEN "late" ELSE pc

\* self.<pump>_shutdown.store(true, Ordering::Relaxed)
CloseStore ==
    /\ closer.kind # "none"
    /\ closer.pc \in {"store_reader", "store_writer", "store_input"}
    /\ reader_shutdown' = IF closer.pc = "store_reader"
                          THEN [reader_shutdown EXCEPT ![closer.c] = TRUE]
                          ELSE reader_shutdown
    /\ writer_shutdown' = IF closer.pc = "store_writer"
                          THEN [writer_shutdown EXCEPT ![closer.c] = TRUE]
                          ELSE writer_shutdown
    /\ input_shutdown' = IF closer.pc = "store_input"
                         THEN [input_shutdown EXCEPT ![closer.c] = TRUE]
                         ELSE input_shutdown
    /\ reader_pc' = IF closer.pc = "store_reader"
                     THEN [reader_pc EXCEPT ![closer.c] = AfterStore(@)]
                     ELSE reader_pc
    /\ writer_pc' = IF closer.pc = "store_writer"
                     THEN [writer_pc EXCEPT ![closer.c] = AfterStore(@)]
                     ELSE writer_pc
    /\ input_pc' = IF closer.pc = "store_input"
                    THEN [input_pc EXCEPT ![closer.c] = AfterStore(@)]
                    ELSE input_pc
    /\ closer' = [closer EXCEPT !.pc = NextClosePc(closer.pc)]
    /\ UNCHANGED <<extVars,
                 connections, cmdVars, session_id, handleVars, reader_exit,
                   channel_in, terminal_data, writer_exit, writer_rx,
                   channel_out, input_rx, buffer, flush_age, enqueued,
                   sendVars>>

\* The thread a join waits for has finished.
Joinable(handle, pc) == handle => pc = "exited"

\* A take() that leaves the handle in place.
TakeKeeps(handle) == handle

\* self.<pump>_handle.take(): the Option is None afterwards.
Take(handle) == FALSE

\* The joins of one connection after a step of close() at `pc`: a handle
\* that was there is joined.
Joined(j, pc, handle) ==
    IF handle
    THEN CASE pc = "join_reader" -> [j EXCEPT !.reader = @ + 1]
           [] pc = "join_writer" -> [j EXCEPT !.writer = @ + 1]
           [] pc = "join_input" -> [j EXCEPT !.input = @ + 1]
    ELSE j

\* if let Some(handle) = self.<pump>_handle.take() { handle.join() }: the
\* handle is taken and the caller blocks until the thread has exited; with
\* the handle already taken nothing is joined.
CloseJoin ==
    /\ closer.kind # "none"
    /\ closer.pc \in {"join_reader", "join_writer", "join_input"}
    /\ LET c == closer.c IN
       /\ closer.pc = "join_reader" => Joinable(reader_handle[c], reader_pc[c])
       /\ closer.pc = "join_writer" => Joinable(writer_handle[c], writer_pc[c])
       /\ closer.pc = "join_input" => Joinable(input_handle[c], input_pc[c])
       /\ reader_handle' = IF closer.pc = "join_reader"
                           THEN [reader_handle EXCEPT ![c] = Take(@)]
                           ELSE reader_handle
       /\ writer_handle' = IF closer.pc = "join_writer"
                           THEN [writer_handle EXCEPT ![c] = Take(@)]
                           ELSE writer_handle
       /\ input_handle' = IF closer.pc = "join_input"
                          THEN [input_handle EXCEPT ![c] = Take(@)]
                          ELSE input_handle
       /\ joins' = [joins EXCEPT ![c] =
                      Joined(@, closer.pc,
                             CASE closer.pc = "join_reader" -> reader_handle[c]
                               [] closer.pc = "join_writer" -> writer_handle[c]
                               [] OTHER -> input_handle[c])]
    /\ closer' = [closer EXCEPT !.pc = NextClosePc(closer.pc)]
    /\ UNCHANGED <<extVars,
                 connections, cmdVars, session_id, flagVars, readerVars,
                   writerVars, inputVars, sendVars>>

\* SshManager::disconnect after connection.close() has returned: at
\* Ok(()) the removed connection goes out of scope, still under the registry
\* mutex, and Drop runs close() once more.
DropConnection ==
    /\ closer.kind = "disconnect"
    /\ closer.pc = "done"
    /\ closer.call = "close"
    /\ closer' = [closer EXCEPT !.pc = "store_reader", !.call = "drop"]
    /\ UNCHANGED <<extVars,
                 connections, cmdVars, session_id, flagVars, handleVars,
                   readerVars, writerVars, inputVars, sendVars>>

\* The manager call returns Ok once the close() that Drop ran has returned.
\* Then the connection is gone: its channel, its queues and what they
\* carried are released, and the registry mutex is unlocked.
CloseReturn ==
    /\ closer.kind # "none"
    /\ closer.pc = "done"
    /\ closer.call = "drop"
    /\ closer' = NoCloser
    /\ IF closer.kind = "disconnect"
       THEN /\ disconnect_pc' = [disconnect_pc EXCEPT ![closer.id] = "ok"]
            /\ connect_pc' = connect_pc
       ELSE /\ connect_pc' = [connect_pc EXCEPT ![closer.id] = "ok"]
            /\ disconnect_pc' = disconnect_pc
    /\ reader_exit' = [reader_exit EXCEPT ![closer.c] = "none"]
    /\ writer_exit' = [writer_exit EXCEPT ![closer.c] = "none"]
    /\ channel_out' = [channel_out EXCEPT ![closer.c] = <<>>]
    /\ enqueued' = [enqueued EXCEPT ![closer.c] = <<>>]
    /\ accepted' = [accepted EXCEPT ![closer.c] = <<>>]
    /\ key_age' = [key_age EXCEPT ![closer.c] = 0]
    /\ rapid' = [rapid EXCEPT ![closer.c] = TRUE]
    /\ flush_age' = [flush_age EXCEPT ![closer.c] = 0]
    /\ UNCHANGED <<extVars,
                 connections, active_connections, connect_new, session_id,
                   flagVars, handleVars, reader_pc, channel_in, terminal_data,
                   writer_pc, writer_rx, input_pc, input_rx, buffer>>

\* ------------------------------------------------------- the reader thread
\* One iteration of the reader's loop is one step: the load of the shutdown
\* flag, the channel.read(&mut buffer) under the channel mutex, and the arm
\* of the match the result selects.  The same holds for the other threads.

\* The thread is in its loop: at its head, or ("late") possibly past the
\* load of the flag when the flag was stored.
InLoop(pc) == pc \in {"running", "late"}

\* The thread runs the body of its loop: it loaded its flag clear.
InBody(pc, flag) == (pc = "running" /\ ~flag) \/ pc = "late"

\* The reader leaves its loop for `why` and the thread ends.
ReaderLeaves(c, why) ==
    /\ reader_pc' = [reader_pc EXCEPT ![c] = "exited"]
    /\ reader_exit' = [reader_exit EXCEPT ![c] = why]
    /\ UNCHANGED <<extVars,
                 regVars, cmdVars, session_id, flagVars, handleVars,
                   channel_in, terminal_data, writerVars, inputVars, sendVars>>

\* while !reader_shutdown_clone.load(Ordering::Relaxed): the flag is set.
ReaderShutdown(c) ==
    /\ InLoop(reader_pc[c])
    /\ reader_shutdown[c]
    /\ ReaderLeaves(c, "shutdown")

\* An emit that tags every event with the same session id.
EmitUntagged(events, sid, data) ==
    [events EXCEPT !["s1"] = Append(@, data)]

\* app_handle.emit("terminal-data", TerminalEvent{session_id, "data", data})
EmitTerminalData(events, sid, data) ==
    [events EXCEPT ![sid] = Append(@, data)]

\* The number of non-empty reads so far.
TotalReads == Len(channel_in["s1"]) + Len(channel_in["s2"])

\* Ok(n): the chunk is decoded lossily and emitted under the session id.
ReaderData(c) ==
    /\ InBody(reader_pc[c], reader_shutdown[c])
    /\ TotalReads < MaxReads
    /\ \E chunk \in ChannelChunks(session_id[c]) :
         /\ Len(chunk) <= ReadBufferBytes
         /\ terminal_data' = EmitTerminalData(terminal_data, session_id[c],
                                              from_utf8_lossy(chunk))
         /\ channel_in' = [channel_in EXCEPT
                             ![session_id[c]] = Append(@, chunk)]
    /\ reader_pc' = [reader_pc EXCEPT ![c] = "running"]
    /\ UNCHANGED <<extVars,
                 regVars, cmdVars, session_id, flagVars, handleVars,
                   reader_exit, writerVars, inputVars, sendVars>>

\* Err(WouldBlock): sleep 10 ms and continue; nothing is emitted.
ReaderWouldBlock(c) ==
    /\ InBody(reader_pc[c], reader_shutdown[c])
    /\ reader_pc' = [reader_pc EXCEPT ![c] = "running"]
    /\ UNCHANGED <<extVars,
                 regVars, cmdVars, session_id, flagVars, handleVars,
                   reader_exit, channel_in, terminal_data, writerVars,
                   inputVars, sendVars>>

\* Ok(0), remote EOF: println and break.
ReaderEof(c) ==
    /\ InBody(reader_pc[c], reader_shutdown[c])
    /\ ReaderLeaves(c, "eof")

\* Err(e), any other error: eprintln and break.
ReaderError(c) ==
    /\ InBody(reader_pc[c], reader_shutdown[c])
    /\ ReaderLeaves(c, "error")

\* ------------------------------------------------------- the writer thread
\* One iteration of the writer's loop is one step.  When the thread ends,
\* writer_rx is dropped with whatever it still holds.

\* The writer leaves its loop for `why` and the thread ends.
WriterLeaves(c, why) ==
    /\ writer_pc' = [writer_pc EXCEPT ![c] = "exited"]
    /\ writer_exit' = [writer_exit EXCEPT ![c] = why]
    /\ writer_rx' = [writer_rx EXCEPT ![c] = <<>>]
    /\ UNCHANGED <<extVars,
                 regVars, cmdVars, session_id, flagVars, handleVars,
                   readerVars, inputVars, sendVars>>

\* while !writer_shutdown_clone.load(Ordering::Relaxed): the flag is set.
WriterShutdown(c) ==
    /\ InLoop(writer_pc[c])
    /\ writer_shutdown[c]
    /\ WriterLeaves(c, "shutdown")
    /\ UNCHANGED channel_out

\* A receive that takes the item queued last.
TryRecvNewest(queue) ==
    [data |-> queue[Len(queue)], rest |-> SubSeq(queue, 1, Len(queue) - 1)]

\* writer_rx.try_recv() on a queue that holds something: Ok(data) with the
\* item queued first, which leaves the queue.
try_recv(queue) == [data |-> Head(queue), rest |-> Tail(queue)]

\* Ok(data): channel.write_all(&data).and_then(|_| channel.flush()) under
\* the channel mutex succeeds.
WriterWrite(c) ==
    /\ InBody(writer_pc[c], writer_shutdown[c])
    /\ writer_rx[c] # <<>>
    /\ channel_out' = [channel_out EXCEPT
                         ![c] = @ \o try_recv(writer_rx[c]).data]
    /\ writer_rx' = [writer_rx EXCEPT ![c] = try_recv(@).rest]
    /\ writer_pc' = [writer_pc EXCEPT ![c] = "running"]
    /\ UNCHANGED <<extVars,
                 regVars, cmdVars, session_id, flagVars, handleVars,
                   readerVars, writer_exit, inputVars, sendVars>>

\* Ok(data), and write_all or flush fails (WouldBlock on the non-blocking
\* session included) after some part of the item went out: eprintln, break.
WriterWriteErr(c) ==
    /\ InBody(writer_pc[c], writer_shutdown[c])
    /\ writer_rx[c] # <<>>
    /\ \E k \in 0..Len(try_recv(writer_rx[c]).data) :
         channel_out' = [channel_out EXCEPT
                           ![c] = @ \o SubSeq(try_recv(writer_rx[c]).data,
                                              1, k)]
    /\ WriterLeaves(c, "error")

\* Err(TryRecvError::Empty): sleep 10 ms.
WriterEmpty(c) ==
    /\ InBody(writer_pc[c], writer_shutdown[c])
    /\ writer_rx[c] = <<>>
    /\ input_pc[c] # "exited"
    /\ writer_pc' = [writer_pc EXCEPT ![c] = "running"]
    /\ UNCHANGED <<extVars,
                 regVars, cmdVars, session_id, flagVars, handleVars,
                   readerVars, writer_exit, writer_rx, channel_out, inputVars,
                   sendVars>>

\* Err(TryRecvError::Disconnected): the queue is empty and the input
\* thread, the last holder of a sender, has ended.
WriterDisconnected(c) ==
    /\ InBody(writer_pc[c], writer_shutdown[c])
    /\ writer_rx[c] = <<>>
    /\ input_pc[c] = "exited"
    /\ WriterLeaves(c, "disconnected")
    /\ UNCHANGED channel_out

\* -------------------------------------------- the input (coalescer) thread
\* while let Ok(data) = input_rx.try_recv() { buffer.push_str(&data) }
Drain(buf, queue) == buf \o Concat(queue)

\* A flush condition that forgets to ask whether the buffer holds anything.
ShouldFlushEmpty(buf, received_any, age) ==
    \/ age > FlushIntervalMs
    \/ received_any /\ Len(buf) > FlushSizeBytes

\* A flush condition that looks at the clock alone.
ShouldFlushIntervalOnly(buf, received_any, age) ==
    buf # <<>> /\ age > FlushIntervalMs

\* The flush condition of the input thread's loop.
ShouldFlush(buf, received_any, age) ==
    \/ buf # <<>> /\ age > FlushIntervalMs
    \/ received_any /\ Len(buf) > FlushSizeBytes

\* input_writer_tx.send(bytes): Err once the writer thread has dropped
\* writer_rx, and then the item goes nowhere.
WriterTxSend(queue, bytes, receiver_alive) ==
    IF receiver_alive THEN Append(queue, bytes) ELSE queue

\* The input thread hands `bytes` to the writer queue of c.
Flush(c, bytes) ==
    LET alive == writer_pc[c] # "exited" IN
    /\ writer_rx' = [writer_rx EXCEPT ![c] = WriterTxSend(@, bytes, alive)]
    /\ enqueued' = IF alive THEN [enqueued EXCEPT ![c] = Append(@, bytes)]
                   ELSE enqueued

\* One iteration of the input thread's loop with the shutdown flag clear:
\* drain the input queue into the buffer, flush the buffer to the writer
\* queue if the flush condition holds, sleep 10 ms.
InputIterate(c) ==
    /\ InBody(input_pc[c], input_shutdown[c])
    /\ LET buf == Drain(buffer[c], input_rx[c]) IN
       IF ShouldFlush(buf, input_rx[c] # <<>>, flush_age[c])
       THEN /\ Flush(c, buf)
            /\ buffer' = [buffer EXCEPT ![c] = <<>>]
            /\ flush_age' = [flush_age EXCEPT ![c] = 0]
       ELSE /\ buffer' = [buffer EXCEPT ![c] = buf]
            /\ UNCHANGED <<writer_rx, enqueued, flush_age>>
    /\ input_rx' = [input_rx EXCEPT ![c] = <<>>]
    /\ input_pc' = [input_pc EXCEPT ![c] = "running"]
    /\ UNCHANGED <<extVars,
                 regVars, cmdVars, session_id, flagVars, handleVars,
                   readerVars, writer_pc, writer_exit, channel_out, sendVars>>

\* The input thread finds the shutdown flag set: break, "Flush any
\* remaining buffer on exit", and the thread ends; input_rx is dropped with
\* whatever it still holds.
InputShutdown(c) ==
    /\ InLoop(input_pc[c])
    /\ input_shutdown[c]
    /\ IF buffer[c] # <<>>
       THEN Flush(c, buffer[c])
       ELSE UNCHANGED <<writer_rx, enqueued>>
    /\ buffer' = [buffer EXCEPT ![c] = <<>>]
    /\ input_rx' = [input_rx EXCEPT ![c] = <<>>]
    /\ input_pc' = [input_pc EXCEPT ![c] = "exited"]
    /\ flush_age' = [flush_age EXCEPT ![c] = 0]
    /\ UNCHANGED <<extVars,
                 regVars, cmdVars, session_id, flagVars, handleVars,
                   readerVars, writer_pc, writer_exit, channel_out, sendVars>>

\* ----------------------------------------------------------- send_input
\* SshConnection::send_input: self.input_tx.send(input.to_string()), Err
\* once the input thread has dropped input_rx.
ConnectionSendInput(queue, input, receiver_alive) ==
    IF receiver_alive
    THEN [res |-> "Ok", queue |-> Append(queue, input)]
    ELSE [res |-> "Err", queue |-> queue]

\* A send_input that hands the input to every connection of the registry.
ManagerSendInputAll(map, queues, alive, id, input) ==
    IF map[id] = NoConn
    THEN [res |-> "Err", queues |-> queues]
    ELSE [res |-> "Ok",
          queues |-> [c \in DOMAIN queues |->
                        IF \E i \in DOMAIN map : map[i] = c
                        THEN Append(queues[c], input) ELSE queues[c]]]

\* SshManager::send_input: the result and the input queues after it.
ManagerSendInput(map, queues, alive, id, input) ==
    IF map[id] = NoConn
    THEN [res |-> "Err", queues |-> queues]
    ELSE LET sent == ConnectionSendInput(queues[map[id]], input,
                                         alive[map[id]])
         IN [res |-> sent.res,
             queues |-> [queues EXCEPT ![map[id]] = sent.queue]]

\* Whether the input thread of each connection still holds input_rx.
InputRxAlive == [c \in Conns |-> input_pc[c] # "exited"]

RECURSIVE SumLen(_, _)
\* The number of strings in f[c], over the connections c of S.
SumLen(f, S) ==
    IF S = {} THEN 0
    ELSE LET c == CHOOSE x \in S : TRUE IN Len(f[c]) + SumLen(f, S \ {c})

\* send_terminal_input -> SshManager::send_input, under the registry mutex.
SendInputCall(id, input) ==
    /\ RegistryFree
    /\ LET call == ManagerSendInput(connections, input_rx, InputRxAlive,
                                    id, input)
       IN /\ input_rx' = call.queues
          /\ IF call.res = "Ok"
             THEN /\ SumLen(accepted, Conns) < MaxSends
                  /\ accepted' = [accepted EXCEPT
                                    ![connections[id]] = Append(@, input)]
             ELSE UNCHANGED accepted
    /\ UNCHANGED <<extVars,
                 regVars, cmdVars, session_id, flagVars, handleVars,
                   readerVars, writerVars, input_pc, buffer, flush_age,
                   enqueued>>

\* send_terminal_input, the time of the call not being recorded.
SendTerminalInput(id, input) ==
    /\ SendInputCall(id, input)
    /\ UNCHANGED <<key_age, rapid>>

\* send_terminal_input for a keystroke whose distance from the keystroke
\* before it is recorded.
TimedSendTerminalInput(id, input) ==
    /\ SendInputCall(id, input)
    /\ rapid' = [c \in Conns |->
                   IF accepted'[c] # accepted[c]
                   THEN rapid[c] /\ (accepted[c] = <<>>
                                     \/ key_age[c] < FlushIntervalMs)
                   ELSE rapid[c]]
    /\ key_age' = [c \in Conns |->
                     IF accepted'[c] # accepted[c] THEN 0 ELSE key_age[c]]

\* -------------------------------------------------------------------- time
\* The least age the clock can show above the flush interval.
AgeCap == ((FlushIntervalMs \div TickMs) + 1) * TickMs

\* The least age the clock can show that is no longer below the interval.
KeyAgeCap == ((FlushIntervalMs + TickMs - 1) \div TickMs) * TickMs

\* TickMs milliseconds pass: Instant::now() moves away from the last_flush
\* of every input thread that will still look at it.  Ages above the flush
\* interval are all alike.
Elapse ==
    /\ flush_age' = [c \in Conns |->
                       IF InBody(input_pc[c], input_shutdown[c])
                       THEN Min(flush_age[c] + TickMs, AgeCap)
                       ELSE flush_age[c]]
    /\ UNCHANGED <<extVars,
                 regVars, cmdVars, session_id, flagVars, handleVars,
                   readerVars, writerVars, input_pc, input_rx, buffer,
                   enqueued, accepted, rapid>>

\* Time passes, the distance between keystrokes not being recorded.
Tick ==
    /\ Elapse
    /\ UNCHANGED key_age

\* Time passes, also since the last keystroke of each connection; that age
\* matters only while another keystroke can follow quickly.
TimedTick ==
    /\ Elapse
    /\ key_age' = [c \in Conns |->
                     IF /\ InBody(input_pc[c], input_shutdown[c])
                        /\ rapid[c] /\ accepted[c] # <<>>
                        /\ SumLen(accepted, Conns) < MaxSends
                     THEN Min(key_age[c] + TickMs, KeyAgeCap)
                     ELSE key_age[c]]

\* ------------------------------------------------------ the state machines
\* connect_ssh for a session that is not connected.
OpenSession(id) ==
    /\ connections[id] = NoConn
    /\ ConnectSshBegin(id)

\* The session whose input path is followed.
InputIds == {"s1"}

\* SshConnection::close and the return of the manager call that ran it.
Close ==
    \/ CloseStore
    \/ CloseJoin
    \/ DropConnection
    \/ CloseReturn

\* The session lifecycle: every command on every session, connects that
\* fail and connects on a connected id included, and every way a pump
\* thread ends without traffic.
Next ==
    \/ \E id \in Ids : ConnectSshBegin(id)
    \/ \E id \in Ids : ManagerConnectErr(id)
    \/ \E id \in Ids : ManagerConnectSpawn(id)
    \/ \E id \in Ids : ManagerConnectStore(id)
    \/ \E id \in Ids : ConnectSshOk(id)
    \/ \E id \in Ids : ConnectSshErr(id)
    \/ \E id \in Ids : ManagerDisconnect(id)
    \/ \E id \in Ids : DisconnectSessionOk(id)
    \/ \E id \in Ids : DisconnectSessionErr(id)
    \/ Close
    \/ \E c \in Conns : ReaderShutdown(c)
    \/ \E c \in Conns : ReaderWouldBlock(c)
    \/ \E c \in Conns : ReaderEof(c)
    \/ \E c \in Conns : ReaderError(c)
    \/ \E c \in Conns : WriterShutdown(c)
    \/ \E c \in Conns : WriterEmpty(c)
    \/ \E c \in Conns : WriterDisconnected(c)
    \/ \E c \in Conns : InputIterate(c)
    \/ \E c \in Conns : InputShutdown(c)

Spec == Init /\ [][Next]_vars

\* The input path: a session is opened, takes keystrokes while time
\* passes, is disconnected and opened again; the writer can fail.
NextInput ==
    \/ \E id \in InputIds : OpenSession(id)
    \/ \E id \in InputIds : ManagerConnectSpawn(id)
    \/ \E id \in InputIds : ManagerConnectStore(id)
    \/ \E id \in InputIds : ConnectSshOk(id)
    \/ \E id \in InputIds : ManagerDisconnect(id)
    \/ \E id \in InputIds : DisconnectSessionOk(id)
    \/ \E id \in InputIds : DisconnectSessionErr(id)
    \/ Close
    \/ \E id \in InputIds : \E input \in Keystrokes(id) :
         TimedSendTerminalInput(id, input)
    \/ \E c \in Conns : ReaderShutdown(c)
    \/ \E c \in Conns : WriterShutdown(c)
    \/ \E c \in Conns : WriterWrite(c)
    \/ \E c \in Conns : WriterWriteErr(c)
    \/ \E c \in Conns : WriterEmpty(c)
    \/ \E c \in Conns : WriterDisconnected(c)
    \/ \E c \in Conns : InputIterate(c)
    \/ \E c \in Conns : InputShutdown(c)
    \/ TimedTick

SpecInput == Init /\ [][NextInput]_vars

\* The data path: each session is opened once and stays connected while
\* the remote side sends output and the UI sends keystrokes.
NextData ==
    \/ \E id \in Ids : OpenSession(id)
    \/ \E id \in Ids : ManagerConnectSpawn(id)
    \/ \E id \in Ids : ManagerConnectStore(id)
    \/ \E id \in Ids : ConnectSshOk(id)
    \/ \E id \in Ids : \E input \in Keystrokes(id) : SendTerminalInput(id, input)
    \/ \E c \in Conns : ReaderData(c)
    \/ \E c \in Conns : ReaderWouldBlock(c)
    \/ \E c \in Conns : WriterWrite(c)
    \/ \E c \in Conns : WriterEmpty(c)
    \/ \E c \in Conns : InputIterate(c)
    \/ Tick

SpecData == Init /\ [][NextData]_vars

\* The lifecycle with the scheduling the program runs under: a started
\* call runs to its end and every spawned thread keeps being scheduled, so a
\* thread whose shutdown flag is set leaves its loop.  What the user and the
\* remote side do next is up to them.
Fairness ==
    /\ \A id \in Ids : WF_vars(ManagerConnectStore(id))
    /\ \A id \in Ids : WF_vars(ConnectSshOk(id))
    /\ \A id \in Ids : WF_vars(ConnectSshErr(id))
    /\ \A id \in Ids : WF_vars(DisconnectSessionOk(id))
    /\ \A id \in Ids : WF_vars(DisconnectSessionErr(id))
    /\ WF_vars(Close)
    /\ \A c \in Conns : WF_vars(ReaderShutdown(c))
    /\ \A c \in Conns : WF_vars(WriterShutdown(c))
    /\ \A c \in Conns : WF_vars(WriterDisconnected(c))
    /\ \A c \in Conns : WF_vars(InputShutdown(c))

SpecFair == Init /\ [][Next]_vars /\ Fairness

\* ------------------------------------------------------------------ claims
\* The manager call of a command returns: its position leaves `from`.
Returns(pc, id, from) == pc[id] = from /\ pc'[id] # from

\* C1: a connect on an id the registry already holds returns an error and
\* leaves the existing entry as it is.
C1_ConnectOnPresentIdFails ==
    [][\A id \in Ids :
         (Returns(connect_pc, id, "spawned") /\ connections[id] # NoConn)
         => /\ connect_pc'[id] = "err"
            /\ connections'[id] = connections[id]
            /\ closer' = closer]_vars

\* C2: when disconnect(id) returns Ok the registry does not hold id and the
\* reader, the writer and the input thread of the removed connection have
\* exited.
C2_DisconnectJoinsAllPumps ==
    [][\A id \in Ids :
         (Returns(disconnect_pc, id, "closing") /\ disconnect_pc'[id] = "ok")
         => /\ connections'[id] = NoConn
            /\ reader_pc'[closer.c] = "exited"
            /\ writer_pc'[closer.c] = "exited"
            /\ input_pc'[closer.c] = "exited"]_vars

\* C2 happens: a disconnect has returned Ok for a connection that was
\* stored, and no thread of it runs.
C2_DisconnectReturned ==
    \E id \in Ids : \E c \in Conns :
        /\ disconnect_pc[id] = "ok"
        /\ session_id[c] = id
        /\ connections[id] = NoConn
        /\ reader_pc[c] = "exited" /\ writer_pc[c] = "exited"
        /\ input_pc[c] = "exited"

\* C3: every string send_input accepted before disconnect was invoked has
\* been written to the channel when disconnect returns (the channel taking
\* every write).
C3_NoInputDroppedOnDisconnect ==
    [][\A id \in Ids :
         (/\ Returns(disconnect_pc, id, "closing")
          /\ disconnect_pc'[id] = "ok"
          /\ writer_exit[closer.c] # "error")
         => channel_out[closer.c] = Concat(accepted[closer.c])]_vars

\* C4: what the coalescer has put on the writer queue is a prefix of what
\* send_input accepted, and while the connection is not shut down no byte
\* is lost on the way: queue items, buffer and input queue together are
\* the accepted input.
C4_CoalescingPreservesInput ==
    \A c \in Conns :
        /\ IsPrefix(Concat(enqueued[c]), Concat(accepted[c]))
        /\ (/\ input_pc[c] = "running"
            /\ ~reader_shutdown[c] /\ ~writer_shutdown[c]
            /\ ~input_shutdown[c])
           => Concat(enqueued[c]) \o buffer[c] \o Concat(input_rx[c])
              = Concat(accepted[c])

StatusOf(c) ==
    IF session_id[c] \in Ids THEN active_connections[session_id[c]]
    ELSE "Absent"

\* C6: once the reader of a session has read zero bytes (remote EOF) and
\* stopped, the status of the session becomes Disconnected, whether or not
\* the user disconnects.
C6_EofMarksDisconnected ==
    \A c \in Conns :
        (reader_exit[c] = "eof")
        ~> (StatusOf(c) = "Disconnected")

\* C7: once a read or a write of a session has failed, none of its three
\* threads stays in its loop and the status of the session becomes Error.
C7_IoErrorStopsPumpsMarksError ==
    \A c \in Conns :
        (reader_exit[c] = "error" \/ writer_exit[c] = "error")
        ~> (/\ ~InLoop(reader_pc[c])
            /\ ~InLoop(writer_pc[c])
            /\ ~InLoop(input_pc[c])
            /\ StatusOf(c) = "Error")

\* The bytes that occur in the strings of S.
BytesOf(S) == UNION {{s[i] : i \in 1..Len(s)} : s \in S}

\* C8: every data event tagged with a session id carries what was read
\* from the channel of that session, and the channel of a connection
\* receives only bytes the UI sent to its session.
C8_SessionIsolation ==
    /\ \A id \in Ids : \A k \in 1..Len(terminal_data[id]) :
         \E chunk \in ChannelChunks(id) :
            terminal_data[id][k] = from_utf8_lossy(chunk)
    /\ \A c \in Conns : session_id[c] \in Ids =>
         /\ IsPrefix(channel_out[c], Concat(accepted[c]))
         /\ \A i \in 1..Len(channel_out[c]) :
              channel_out[c][i] \in BytesOf(Keystrokes(session_id[c]))

\* C8 happens: two sessions are connected at once, each has emitted a data
\* event and each has had input written to its channel.
C8_BothSessionsCarryTraffic ==
    /\ \A id \in Ids : connections[id] # NoConn
    /\ connections["s1"] # connections["s2"]
    /\ \A id \in Ids : terminal_data[id] # <<>>
    /\ \A id \in Ids : channel_out[connections[id]] # <<>>

\* C9: a session has one data event per non-empty read, in the order of the
\* reads, and the events together are the byte stream of the channel.
C9_EventsAreTheByteStream ==
    \A id \in Ids :
        /\ Len(terminal_data[id]) = Len(channel_in[id])
        /\ Concat(terminal_data[id]) = from_utf8_lossy(Concat(channel_in[id]))

\* C10: send_input on an id the registry does not hold returns an error and
\* changes no queue; on an id it holds it returns Ok and appends the input
\* to the input queue of that connection and to no other; the step that
\* accepts an input changes no registry entry.
C10_SendInputRoutes ==
    /\ [](RegistryFree =>
            \A id \in Ids : \A input \in Keystrokes(id) :
               LET call == ManagerSendInput(connections, input_rx,
                                            InputRxAlive, id, input)
               IN IF connections[id] = NoConn
                  THEN call.res = "Err" /\ call.queues = input_rx
                  ELSE /\ call.res = "Ok"
                       /\ call.queues =
                            [input_rx EXCEPT
                               ![connections[id]] = Append(@, input)])
    /\ [][\A c \in Conns :
            Len(accepted'[c]) > Len(accepted[c])
            => /\ connections' = connections
               /\ \E id \in Ids :
                    /\ connections[id] = c
                    /\ \E input \in Keystrokes(id) :
                         input_rx' = [input_rx EXCEPT ![c] = Append(@, input)]
       ]_vars

\* C10 happens: with two connections in the registry, one has an input in
\* its queue and the other, which was sent nothing, has none.
C10_InputQueuedForOneSession ==
    \E id \in Ids : \E other \in Ids \ {id} :
        /\ connections[id] # NoConn /\ connections[other] # NoConn
        /\ input_rx[connections[id]] # <<>>
        /\ accepted[connections[other]] = <<>>
        /\ input_rx[connections[other]] = <<>>


\* ---------------------------------------------------------------------
\* C11  ConnectionStatus transitions (lib.rs connect_ssh, disconnect_session)

\* The status recorded for an id; an absent entry counts as Disconnected.
RecordedStatus(map, id) ==
    IF map[id] = "Absent" THEN "Disconnected" ELSE map[id]

\* The transitions the state diagram allows.
C11_AllowedSteps ==
    { <<"Disconnected", "Connecting">>, <<"Connecting", "Connected">>,
      <<"Connecting", "Error">>, <<"Connected", "Disconnected">>,
      <<"Error", "Connecting">> }

\* C11: the status recorded per id in active_connections only changes
\* along Disconnected -> Connecting, Connecting -> Connected,
\* Connecting -> Error, Connected -> Disconnected and the retry
\* Error -> Connecting; in particular Connected is entered only from
\* Connecting and a Connected session never moves to Connecting or Error.
C11_StatusFollowsDiagram ==
    [][\A id \in Ids :
          LET a == RecordedStatus(active_connections, id)
              b == RecordedStatus(active_connections', id)
          IN  a # b => <<a, b>> \in C11_AllowedSteps]_vars


\* ---------------------------------------------------------------------
\* The two SshManager instances of lib.rs.  AppState::new builds one
\* (AppState.ssh_manager, the registry `connections` above) and run() builds
\* another and hands it to app.manage; a command reaches the one its
\* State<..> parameter names.

\* The ids AppState.ssh_manager holds.
StateManagerKeys == {id \in Ids : connections[id] # NoConn}

ConnectCommands == {"connect_ssh", "ssh_connect", "ssh_connect_with_password"}

LookupCommands ==
    {"send_terminal_input", "disconnect_session", "ssh_send_input",
     "ssh_disconnect", "ssh_list_sessions"}

\* The registry a command works on: State<'_, AppState> commands use
\* state.ssh_manager, State<'_, Arc<SshManager>> commands the managed one.
CommandRegistry(cmd) ==
    IF cmd \in {"connect_ssh", "send_terminal_input", "disconnect_session"}
    THEN StateManagerKeys
    ELSE managed_connections

\* ssh_connect and ssh_connect_with_password: SshManager::connect on the
\* managed manager; on success the connection is inserted under the id (a
\* connection already there is displaced and dropped), on failure the
\* registry is left alone.
SshConnect(cmd, id) ==
    /\ cmd \in {"ssh_connect", "ssh_connect_with_password"}
    /\ \E ok \in BOOLEAN :
         /\ managed_connections' =
              IF ok THEN managed_connections \cup {id}
                    ELSE managed_connections
         /\ reply' = [cmd |-> cmd, id |-> id, ok |-> ok, list |-> {}]
    /\ UNCHANGED notAppVars

\* ssh_send_input: SshManager::send_input on the managed manager.
SshSendInput(id) ==
    /\ reply' = [cmd |-> "ssh_send_input", id |-> id,
                 ok |-> id \in managed_connections, list |-> {}]
    /\ UNCHANGED <<managed_connections, notAppVars>>

\* ssh_disconnect: SshManager::disconnect on the managed manager: the entry
\* is removed and closed, Err("Session not found") when there is none.
SshDisconnect(id) ==
    /\ managed_connections' = managed_connections \ {id}
    /\ reply' = [cmd |-> "ssh_disconnect", id |-> id,
                 ok |-> id \in managed_connections, list |-> {}]
    /\ UNCHANGED notAppVars

\* ssh_list_sessions: the keys of the managed manager.
SshListSessions ==
    /\ reply' = [cmd |-> "ssh_list_sessions", id |-> "none", ok |-> TRUE,
                 list |-> managed_connections]
    /\ UNCHANGED <<managed_connections, notAppVars>>

\* The whole command surface: the AppState commands on the followed
\* session beside the ssh_* commands on every id.
NextApp ==
    \/ \E id \in InputIds : ConnectSshBegin(id)
    \/ \E id \in InputIds : ManagerConnectErr(id)
    \/ \E id \in InputIds : ManagerConnectSpawn(id)
    \/ \E id \in InputIds : ManagerConnectStore(id)
    \/ \E id \in InputIds : ConnectSshOk(id)
    \/ \E id \in InputIds : ConnectSshErr(id)
    \/ \E id \in InputIds : ManagerDisconnect(id)
    \/ \E id \in InputIds : DisconnectSessionOk(id)
    \/ \E id \in InputIds : DisconnectSessionErr(id)
    \/ Close
    \/ \E c \in Conns : ReaderShutdown(c)
    \/ \E c \in Conns : WriterShutdown(c)
    \/ \E c \in Conns : InputShutdown(c)
    \/ \E id \in Ids : SshConnect("ssh_connect", id)
    \/ \E id \in Ids : SshConnect("ssh_connect_with_password", id)
    \/ \E id \in Ids : SshSendInput(id)
    \/ \E id \in Ids : SshDisconnect(id)
    \/ SshListSessions

SpecApp == Init /\ [][NextApp]_vars

\* C12: there is one session registry: an id connected through any connect
\* command (it is in the registry that command fills) is found by every
\* send-input, disconnect and list command (it is in the registry that
\* command searches).
C12_SingleRegistry ==
    \A id \in Ids : \A c \in ConnectCommands : \A q \in LookupCommands :
        id \in CommandRegistry(c) => id \in CommandRegistry(q)


\* ---------------------------------------------------------------------
\* ssh.rs: SshManager::connect with its authentication chain and its
\* "connection_status" events, send_input, list_directory, disconnect.

\* The value of $HOME.
Home == "HOME"

NoPath == [prefix |-> "", dir |-> "", name |-> ""]

KeyPath(prefix, dir, name) == [prefix |-> prefix, dir |-> dir, name |-> name]

\* The key_path values a PublicKey session is created with: two under
\* "~/", one of them an Ed25519 key, and one absolute path.
SpecifiedKeys ==
    { KeyPath("~", ".ssh", "id_rsa"), KeyPath("~", ".ssh", "id_ed25519"),
      KeyPath("/srv", "keys", "deploy") }

\* expanded_path: a leading "~/" is replaced by $HOME and "/".
ExpandPath(key_path) ==
    IF key_path.prefix = "~" THEN [key_path EXCEPT !.prefix = Home]
                            ELSE key_path

get_filename_from_path(path) == path.name

\* The files a call can find on disk.
DiskFiles ==
    { KeyPath(Home, ".ssh", "id_rsa"), KeyPath(Home, ".ssh", "id_ecdsa"),
      KeyPath(Home, ".ssh", "id_ed25519"), KeyPath("/srv", "keys", "deploy") }

AuthMethods ==
    {[kind |-> "Password", key_path |-> NoPath],
     [kind |-> "Agent", key_path |-> NoPath]}
    \cup {[kind |-> "PublicKey", key_path |-> k] : k \in SpecifiedKeys}

\* common_keys with the conventional files in the opposite order.
CommonKeysReversed(kind) ==
    << KeyPath(Home, ".ssh", "id_ed25519"), KeyPath(Home, ".ssh", "id_ecdsa"),
       KeyPath(Home, ".ssh", "id_rsa") >>

\* common_keys: the conventional key files in the order the fallback loop
\* of a branch visits them (PublicKey branch line 316, Agent branch line 373).
CommonKeys(kind) ==
    IF kind = "PublicKey"
    THEN << KeyPath(Home, ".ssh", "id_rsa"), KeyPath(Home, ".ssh", "id_ecdsa"),
            KeyPath(Home, ".ssh", "id_ed25519") >>
    ELSE << KeyPath(Home, ".ssh", "id_rsa"), KeyPath(Home, ".ssh", "id_ed25519"),
            KeyPath(Home, ".ssh", "id_ecdsa") >>

\* fallback_paths of the PublicKey error text: the literal "~/.ssh/.." names.
FallbackPaths ==
    << KeyPath("~", ".ssh", "id_rsa"), KeyPath("~", ".ssh", "id_ecdsa"),
       KeyPath("~", ".ssh", "id_ed25519") >>

\* One credential tried against the server.  The two or three
\* userauth_pubkey_file variants tried on the specified key (with the .pub
\* file, without it, with an empty passphrase) are one attempt on that key,
\* which succeeds when one of them does.
Attempt(kind, path, phase, ok) ==
    [kind |-> kind, path |-> path, phase |-> phase, ok |-> ok]

\* A credential as an error text names it.
Tried(kind, path) == [kind |-> kind, path |-> path]

\* emit_status: one "connection_status" event.
emit_status(events, sid, status, message) ==
    Append(events, [session_id |-> sid, status |-> status,
                    message |-> message])

\* emit_status for each message in turn, all with status "connecting".
RECURSIVE EmitAll(_, _, _)
EmitAll(events, sid, messages) ==
    IF messages = <<>> THEN events
    ELSE EmitAll(emit_status(events, sid, "connecting", Head(messages)),
                 sid, Tail(messages))

\* connect returns Err(..): nothing is emitted and nothing stored.
SshRsReturnErr(err, tried) ==
    /\ ssh_result' = [ok |-> FALSE, err |-> err, tried |-> tried]
    /\ ssh_pc' = "done"

\* connect is called for a session; the key files on disk are what they are.
SshRsConnectCall(id, method, files) ==
    /\ ssh_pc \in {"idle", "done"}
    /\ Len(reader_tasks[id]) < MaxConns
    /\ ssh_pc' = "transport"
    /\ app_session' = [id |-> id, auth_method |-> method]
    /\ key_files' = files
    /\ auth_success' = FALSE
    /\ key_found' = FALSE
    /\ sftp' = FALSE
    /\ common_keys' = <<>>
    /\ authenticated' = FALSE
    /\ attempts' = <<>>
    /\ status_events' = <<>>
    /\ ssh_result' = NoResult
    /\ UNCHANGED <<ssh_connections, ssh_channel, ssh_reply, notSshVars>>

\* The messages of lines 65-113 in order.
TransportMessages ==
    << <<"Connecting to", "">>, <<"Resolving hostname", "">>,
       <<"Establishing TCP connection", "">>,
       <<"TCP connection established", "">>,
       <<"Initializing SSH session", "">>,
       <<"Performing SSH protocol handshake", "">>,
       <<"SSH handshake completed", "">>, <<"Server auth methods", "">>,
       <<"Starting user authentication", "">> >>

\* How many of them are out when a step of lines 65-113 fails.
TransportEmitted(outcome) ==
    CASE outcome = "emit_err" -> 0
      [] outcome = "resolve_err" -> 2
      [] outcome = "tcp_err" -> 3
      [] outcome = "session_err" -> 5
      [] outcome = "handshake_err" -> 6
      [] outcome = "no_publickey" -> 8
      [] OTHER -> Len(TransportMessages)

\* Lines 65-113: name resolution, TCP connect, handshake, the query of the
\* server's authentication methods.  Each failure returns at once.
SshRsTransport ==
    /\ ssh_pc = "transport"
    /\ \E outcome \in {"emit_err", "resolve_err", "tcp_err", "session_err",
                       "handshake_err", "no_publickey", "ok"} :
         /\ status_events' =
              EmitAll(status_events, app_session.id,
                      SubSeq(TransportMessages, 1, TransportEmitted(outcome)))
         /\ IF outcome = "ok"
            THEN ssh_pc' = "auth" /\ UNCHANGED ssh_result
            ELSE SshRsReturnErr(outcome, <<>>)
    /\ UNCHANGED <<ssh_connections, app_session, key_files, auth_success,
                   key_found, sftp, common_keys, authenticated, attempts,
                   ssh_channel, ssh_reply, notSshVars>>

\* AuthMethod::Password (lines 115-118): reported as unsupported.
SshRsAuthPassword ==
    /\ ssh_pc = "auth"
    /\ app_session.auth_method.kind = "Password"
    /\ status_events' =
         emit_status(status_events, app_session.id, "connecting",
                     <<"Password authentication not supported yet", "">>)
    /\ SshRsReturnErr("password_requires_input", <<>>)
    /\ UNCHANGED <<ssh_connections, app_session, key_files, auth_success,
                   key_found, sftp, common_keys, authenticated, attempts,
                   ssh_channel, ssh_reply, notSshVars>>

\* What the attempt on the specified key emits after "Key file found": an
\* Ed25519 key reports success and failure, any other key only success.
PrimaryOutcomeMessages(path, ok) ==
    IF path.name = "id_ed25519"
    THEN IF ok THEN << <<"Ed25519 key authentication successful", "">> >>
               ELSE << <<"Ed25519 key failed", "">> >>
    ELSE IF ok THEN << <<"Key authentication successful", "">> >>
               ELSE <<>>

\* AuthMethod::PublicKey, lines 120-282: the specified key, if it exists.
SshRsAuthPrimaryKey ==
    /\ ssh_pc = "auth"
    /\ app_session.auth_method.kind = "PublicKey"
    /\ LET path == ExpandPath(app_session.auth_method.key_path)
           sid == app_session.id
           trying == emit_status(status_events, sid, "connecting",
                                 <<"Trying primary SSH key", path.name>>)
       IN  IF path \in key_files
           THEN \E ok \in BOOLEAN :
                  /\ status_events' =
                       EmitAll(trying, sid,
                               << <<"Key file found", path.name>> >>
                               \o PrimaryOutcomeMessages(path, ok))
                  /\ attempts' =
                       Append(attempts, Attempt("pubkey", path, "primary", ok))
                  /\ auth_success' = ok
                  /\ authenticated' = ok
                  /\ ssh_pc' = IF ok THEN "verdict" ELSE "pk_agent"
           ELSE /\ status_events' =
                     emit_status(trying, sid, "connecting",
                                 <<"Primary key file not found", path.name>>)
                /\ ssh_pc' = "pk_agent"
                /\ UNCHANGED <<attempts, auth_success, authenticated>>
    /\ UNCHANGED <<ssh_connections, app_session, key_files, key_found, sftp,
                   common_keys, ssh_result, ssh_channel, ssh_reply,
                   notSshVars>>

\* Lines 285-320: the agent after the specified key; when it fails too the
\* fallback loop is announced and set up.
SshRsAuthAgentFallback ==
    /\ ssh_pc = "pk_agent"
    /\ \E ok \in BOOLEAN :
         /\ attempts' = Append(attempts, Attempt("agent", NoPath, "agent", ok))
         /\ auth_success' = ok
         /\ authenticated' = ok
         /\ IF ok
            THEN /\ status_events' =
                      emit_status(status_events, app_session.id, "connecting",
                                  <<"SSH agent authentication successful", "">>)
                 /\ ssh_pc' = "verdict"
                 /\ UNCHANGED common_keys
            ELSE /\ status_events' =
                      emit_status(status_events, app_session.id, "connecting",
                                  <<"Trying fallback SSH keys", "">>)
                 /\ common_keys' = CommonKeys("PublicKey")
                 /\ ssh_pc' = "pk_fallback"
    /\ UNCHANGED <<ssh_connections, app_session, key_files, key_found, sftp,
                   ssh_result, ssh_channel, ssh_reply, notSshVars>>

\* A fallback loop that goes on to the next key after a success.
AfterKeyNoBreak(ok, loop, keys) == [pc |-> loop, keys |-> Tail(keys)]

\* Where a fallback loop stands after one attempt: a success leaves the
\* loop (break, lines 335 and 385), a failure goes on to the next key.
AfterKey(ok, loop, keys) ==
    [pc |-> IF ok THEN "verdict" ELSE loop,
     keys |-> IF ok THEN <<>> ELSE Tail(keys)]

\* One iteration of the fallback loop of the PublicKey branch (322-348).
SshRsAuthFallbackKey ==
    /\ ssh_pc = "pk_fallback"
    /\ common_keys # <<>>
    /\ LET fallback_key == Head(common_keys)
           key_name == get_filename_from_path(fallback_key)
           sid == app_session.id
       IN  IF fallback_key \in key_files
           THEN \E ok \in BOOLEAN :
                  /\ attempts' = Append(attempts,
                        Attempt("pubkey", fallback_key, "fallback", ok))
                  /\ status_events' =
                       EmitAll(status_events, sid,
                          << <<"Trying fallback key", key_name>>,
                             IF ok
                             THEN <<"Fallback key authentication successful",
                                    key_name>>
                             ELSE <<"Fallback key failed", key_name>> >>)
                  /\ auth_success' = ok
                  /\ authenticated' = ok
                  /\ ssh_pc' = AfterKey(ok, "pk_fallback", common_keys).pc
                  /\ common_keys' =
                       AfterKey(ok, "pk_fallback", common_keys).keys
           ELSE /\ status_events' =
                     emit_status(status_events, sid, "connecting",
                                 <<"Fallback key not found", key_name>>)
                /\ common_keys' = Tail(common_keys)
                /\ UNCHANGED <<attempts, auth_success, authenticated, ssh_pc>>
    /\ UNCHANGED <<ssh_connections, app_session, key_files, key_found, sftp,
                   ssh_result, ssh_channel, ssh_reply, notSshVars>>

\* Lines 351-359: nothing worked; the error text names the specified key
\* and the three conventional paths.
SshRsAuthPublicKeyFailed ==
    /\ ssh_pc = "pk_fallback"
    /\ common_keys = <<>>
    /\ ~auth_success
    /\ SshRsReturnErr("public_key_failed",
          << Tried("pubkey", ExpandPath(app_session.auth_method.key_path)) >>
          \o [i \in 1..Len(FallbackPaths) |->
                Tried("pubkey", FallbackPaths[i])])
    /\ UNCHANGED <<ssh_connections, app_session, key_files, auth_success,
                   key_found, sftp, common_keys, authenticated, attempts,
                   status_events, ssh_channel, ssh_reply, notSshVars>>

\* AuthMethod::Agent, lines 362-377: the agent, then the fallback loop.
SshRsAuthAgent ==
    /\ ssh_pc = "auth"
    /\ app_session.auth_method.kind = "Agent"
    /\ LET sid == app_session.id
           trying == emit_status(status_events, sid, "connecting",
                                 <<"Trying SSH agent authentication", "">>)
       IN  \E ok \in BOOLEAN :
             /\ attempts' =
                  Append(attempts, Attempt("agent", NoPath, "agent", ok))
             /\ authenticated' = ok
             /\ IF ok
                THEN /\ status_events' =
                          emit_status(trying, sid, "connecting",
                             <<"SSH agent authentication successful", "">>)
                     /\ ssh_pc' = "verdict"
                     /\ UNCHANGED common_keys
                ELSE /\ status_events' =
                          EmitAll(trying, sid,
                             << <<"SSH agent failed", "">>,
                                <<"Falling back to key files", "">> >>)
                     /\ common_keys' = CommonKeys("Agent")
                     /\ ssh_pc' = "ag_fallback"
    /\ UNCHANGED <<ssh_connections, app_session, key_files, auth_success,
                   key_found, sftp, ssh_result, ssh_channel, ssh_reply,
                   notSshVars>>

\* One iteration of the fallback loop of the Agent branch (380-391).
SshRsAuthAgentFallbackKey ==
    /\ ssh_pc = "ag_fallback"
    /\ common_keys # <<>>
    /\ LET key_path == Head(common_keys)
           key_name == get_filename_from_path(key_path)
           sid == app_session.id
       IN  IF key_path \in key_files
           THEN \E ok \in BOOLEAN :
                  /\ attempts' = Append(attempts,
                        Attempt("pubkey", key_path, "fallback", ok))
                  /\ status_events' =
                       EmitAll(status_events, sid,
                          << <<"Trying fallback key", key_name>>,
                             IF ok
                             THEN <<"Fallback key successful", key_name>>
                             ELSE <<"Fallback key failed", key_name>> >>)
                  /\ key_found' = ok
                  /\ authenticated' = ok
                  /\ ssh_pc' = AfterKey(ok, "ag_fallback", common_keys).pc
                  /\ common_keys' =
                       AfterKey(ok, "ag_fallback", common_keys).keys
           ELSE /\ common_keys' = Tail(common_keys)
                /\ UNCHANGED <<attempts, status_events, key_found,
                               authenticated, ssh_pc>>
    /\ UNCHANGED <<ssh_connections, app_session, key_files, auth_success,
                   sftp, ssh_result, ssh_channel, ssh_reply, notSshVars>>

\* Lines 393-395: no key worked; the error text names the agent's failure.
SshRsAuthAgentFailed ==
    /\ ssh_pc = "ag_fallback"
    /\ common_keys = <<>>
    /\ ~key_found
    /\ SshRsReturnErr("agent_failed", << Tried("agent", NoPath) >>)
    /\ UNCHANGED <<ssh_connections, app_session, key_files, auth_success,
                   key_found, sftp, common_keys, authenticated, attempts,
                   status_events, ssh_channel, ssh_reply, notSshVars>>

\* Lines 401-405: session.authenticated() decides.
SshRsAuthVerdict ==
    /\ ssh_pc = "verdict"
    /\ IF authenticated
       THEN /\ status_events' =
                 emit_status(status_events, app_session.id, "connecting",
                             <<"User authentication completed", "">>)
            /\ ssh_pc' = "channel"
            /\ UNCHANGED ssh_result
       ELSE /\ SshRsReturnErr("authentication_failed", <<>>)
            /\ UNCHANGED status_events
    /\ UNCHANGED <<ssh_connections, app_session, key_files, auth_success,
                   key_found, sftp, common_keys, authenticated, attempts,
                   ssh_channel, ssh_reply, notSshVars>>

\* The messages of lines 408-429 in order.
ChannelMessages ==
    << <<"Creating terminal session", "">>,
       <<"Requesting pseudo-terminal (PTY)", "">>, <<"PTY allocated", "">>,
       <<"Setting up terminal environment", "">>,
       <<"Starting remote shell", "">>, <<"Shell started", "">> >>

\* How many of them are out when a step of lines 408-429 fails.
ChannelEmitted(outcome) ==
    CASE outcome = "channel_err" -> 1
      [] outcome = "pty_err" -> 2
      [] outcome = "shell_err" -> 5
      [] OTHER -> Len(ChannelMessages)

\* Lines 408-429: channel_session, request_pty, shell.
SshRsChannelSetup ==
    /\ ssh_pc = "channel"
    /\ \E outcome \in {"channel_err", "pty_err", "shell_err", "ok"} :
         /\ status_events' =
              EmitAll(status_events, app_session.id,
                      SubSeq(ChannelMessages, 1, ChannelEmitted(outcome)))
         /\ IF outcome = "ok"
            THEN ssh_pc' = "sftp" /\ UNCHANGED ssh_result
            ELSE SshRsReturnErr(outcome, <<>>)
    /\ UNCHANGED <<ssh_connections, app_session, key_files, auth_success,
                   key_found, sftp, common_keys, authenticated, attempts,
                   ssh_channel, ssh_reply, notSshVars>>

\* Where connect goes after session.sftp() if a failure of it were fatal.
AfterSftpFatal(ok) == IF ok THEN "store" ELSE "sftp_failed"

\* Where connect goes after session.sftp(): on to storing, either way.
AfterSftp(ok) == "store"

\* Lines 431-442: the SFTP subsystem, Some(sftp) or None.
SshRsSftpInit ==
    /\ ssh_pc = "sftp"
    /\ \E ok \in BOOLEAN :
         /\ status_events' =
              EmitAll(status_events, app_session.id,
                 << <<"Initializing SFTP support", "">>,
                    IF ok THEN <<"SFTP support enabled", "">>
                          ELSE <<"SFTP not available", "">> >>)
         /\ sftp' = ok
         /\ ssh_pc' = AfterSftp(ok)
    /\ UNCHANGED <<ssh_connections, app_session, key_files, auth_success,
                   key_found, common_keys, authenticated, attempts,
                   ssh_result, ssh_channel, ssh_reply, notSshVars>>

\* Lines 444-458: the connection goes into the registry with its channel
\* and whatever session.sftp() gave.
SshRsStore ==
    /\ ssh_pc = "store"
    /\ status_events' =
         emit_status(status_events, app_session.id, "connecting",
                     <<"Storing connection details", "">>)
    /\ ssh_connections' =
         [ssh_connections EXCEPT ![app_session.id] =
            [present |-> TRUE, channel |-> TRUE, sftp |-> sftp,
             reader_started |-> FALSE]]
    /\ ssh_channel' = [ssh_channel EXCEPT ![app_session.id] = <<>>]
    /\ ssh_pc' = "stored"
    /\ UNCHANGED <<app_session, key_files, auth_success, key_found, sftp,
                   common_keys, authenticated, attempts, ssh_result,
                   ssh_reply, notSshVars>>

\* The byte connect writes for the first prompt.
Newline == <<10>>

\* Lines 460-559, after the two sleeps: the newline for the first prompt
\* (written if the channel is still there, errors ignored), the reader task
\* is started, "connected" is emitted twice and connect returns Ok.
SshRsFinish ==
    /\ ssh_pc = "stored"
    /\ LET sid == app_session.id
           conn == ssh_connections[sid]
       IN  /\ \E written \in BOOLEAN :
                ssh_channel' =
                  IF conn.present /\ conn.channel /\ written
                  THEN [ssh_channel EXCEPT ![sid] = Append(@, Newline)]
                  ELSE ssh_channel
           /\ ssh_connections' =
                IF conn.present
                THEN [ssh_connections EXCEPT ![sid].reader_started = TRUE]
                ELSE ssh_connections
           /\ reader_tasks' =
                [reader_tasks EXCEPT ![sid] =
                   Append(@, [pc |-> "spawned",
                              channel |-> IF conn.present /\ conn.channel
                                          THEN "Some" ELSE "None"])]
           /\ status_events' =
                emit_status(
                  emit_status(
                    emit_status(status_events, sid, "connecting",
                                <<"Connection stored successfully", "">>),
                    sid, "connected",
                    <<"SSH connection established successfully", "">>),
                  sid, "connected", <<"Ready to use terminal", "">>)
    /\ ssh_result' = [ok |-> TRUE, err |-> "none", tried |-> <<>>]
    /\ ssh_pc' = "done"
    /\ UNCHANGED <<app_session, key_files, auth_success, key_found, sftp,
                   common_keys, authenticated, attempts, ssh_reply,
                   terminal_output, notTaskVars>>

SshReply(op, id, ok, err) ==
    [op |-> op, id |-> id, ok |-> ok, err |-> err, status |-> "none"]

\* send_input (590-612): written and flushed to the channel of the
\* connection found; Ok and nothing written when there is none.
SshRsSendInput(id, input) ==
    /\ Len(ssh_channel[id]) <= MaxSends
    /\ LET conn == ssh_connections[id]
       IN  IF conn.present /\ conn.channel
           THEN \E ok \in BOOLEAN :
                  /\ ssh_channel' =
                       IF ok THEN [ssh_channel EXCEPT ![id] = Append(@, input)]
                             ELSE ssh_channel
                  /\ ssh_reply' =
                       SshReply("send_input", id, ok,
                                IF ok THEN "none" ELSE "Failed to send input")
           ELSE /\ ssh_reply' = SshReply("send_input", id, TRUE, "none")
                /\ UNCHANGED ssh_channel
    /\ UNCHANGED <<ssh_connections, callVars, notSshVars>>

\* list_directory (614-673).
SshRsListDirectory(id) ==
    /\ LET conn == ssh_connections[id]
       IN  IF ~conn.present
           THEN ssh_reply' = SshReply("list_directory", id, FALSE,
                                      "No SSH connection found")
           ELSE IF ~conn.sftp
           THEN ssh_reply' = SshReply("list_directory", id, FALSE,
                                      "SFTP is not available")
           ELSE \E ok \in BOOLEAN :
                  ssh_reply' =
                    SshReply("list_directory", id, ok,
                             IF ok THEN "none"
                                   ELSE "Failed to read directory")
    /\ UNCHANGED <<ssh_connections, callVars, ssh_channel, notSshVars>>

\* disconnect (562-588): the entry is removed, its channel taken out of
\* the connection (which the connection's reader task shares) and closed,
\* its SFTP handle dropped and "disconnected" emitted; Ok for an absent id.
SshRsDisconnect(id) ==
    /\ IF ssh_connections[id].present
       THEN /\ ssh_connections' = [ssh_connections EXCEPT ![id] = NoSshConn]
            /\ reader_tasks' =
                 IF ssh_connections[id].reader_started
                 THEN [reader_tasks EXCEPT
                         ![id][Len(reader_tasks[id])].channel = "None"]
                 ELSE reader_tasks
            /\ status_events' =
                 emit_status(status_events, id, "disconnected",
                             <<"Disconnected", "">>)
       ELSE UNCHANGED <<ssh_connections, reader_tasks, status_events>>
    /\ ssh_reply' = SshReply("disconnect", id, TRUE, "none")
    /\ UNCHANGED <<ssh_pc, app_session, key_files, auth_success, key_found,
                   sftp, common_keys, authenticated, attempts, ssh_result,
                   ssh_channel, terminal_output, notTaskVars>>

\* A lookup that finds a key as soon as the map holds any entry.
ContainsAnyKey(map, id) == \E i \in Ids : map[i].present

\* connections.contains_key(session_id)
contains_key(map, id) == map[id].present

\* get_connection_status (675-682): Some(Connected) for an id the registry
\* holds, Some(Disconnected) otherwise.
get_connection_status(map, id) ==
    IF contains_key(map, id) THEN "Connected" ELSE "Disconnected"

\* A call of get_connection_status, under the registry mutex.
SshRsGetConnectionStatus(id) ==
    /\ ssh_reply' =
         [SshReply("get_connection_status", id, TRUE, "none")
            EXCEPT !.status = get_connection_status(ssh_connections, id)]
    /\ UNCHANGED <<ssh_connections, callVars, ssh_channel, notSshVars>>

\* The authentication chain: connect called with every authentication
\* method and every set of key files on disk, each step free to fail.
NextAuth ==
    \/ \E id \in InputIds : \E method \in AuthMethods :
         \E files \in SUBSET DiskFiles : SshRsConnectCall(id, method, files)
    \/ SshRsTransport
    \/ SshRsAuthPassword
    \/ SshRsAuthPrimaryKey
    \/ SshRsAuthAgentFallback
    \/ SshRsAuthFallbackKey
    \/ SshRsAuthPublicKeyFailed
    \/ SshRsAuthAgent
    \/ SshRsAuthAgentFallbackKey
    \/ SshRsAuthAgentFailed
    \/ SshRsAuthVerdict
    \/ SshRsChannelSetup
    \/ SshRsSftpInit
    \/ SshRsStore
    \/ SshRsFinish

SpecAuth == Init /\ [][NextAuth]_vars

\* The stored connection in use: agent connects without key files, then
\* input, directory listings and disconnects on the connected id and on
\* one that is unknown to the manager.
NextSftp ==
    \/ \E id \in InputIds :
         SshRsConnectCall(id, [kind |-> "Agent", key_path |-> NoPath], {})
    \/ SshRsTransport
    \/ SshRsAuthAgent
    \/ SshRsAuthAgentFallbackKey
    \/ SshRsAuthAgentFailed
    \/ SshRsAuthVerdict
    \/ SshRsChannelSetup
    \/ SshRsSftpInit
    \/ SshRsStore
    \/ SshRsFinish
    \/ \E id \in Ids : \E input \in Keystrokes(id) : SshRsSendInput(id, input)
    \/ \E id \in Ids : SshRsListDirectory(id)
    \/ \E id \in Ids : SshRsDisconnect(id)
    \/ \E id \in Ids : SshRsGetConnectionStatus(id)

SpecSftp == Init /\ [][NextSftp]_vars


\* ---------------------------------------------------------------------
\* C13 .. C19  the authentication chain and the SFTP handle of ssh.rs

\* The credentials of the attempts made, in order.
Credentials(atts) ==
    [i \in 1..Len(atts) |-> Tried(atts[i].kind, atts[i].path)]

\* The members of a sequence of paths that exist on disk, in its order.
Existing(paths, files) == SelectSeq(paths, LAMBDA p : p \in files)

\* The priority the conventional key files are said to be tried in.
C13_ConventionalOrder ==
    << KeyPath(Home, ".ssh", "id_rsa"), KeyPath(Home, ".ssh", "id_ecdsa"),
       KeyPath(Home, ".ssh", "id_ed25519") >>

\* C13: when connect returns the PublicKey chain's error for a request
\* whose key file does not exist (every attempt failed), the attempts made
\* are exactly: the SSH agent, then those of ~/.ssh/id_rsa, id_ecdsa and
\* id_ed25519 that exist, in that order; the missing path is never tried.
C13_MissingKeyFallbackOrder ==
    ( /\ ssh_pc = "done"
      /\ ssh_result.err = "public_key_failed"
      /\ ExpandPath(app_session.auth_method.key_path) \notin key_files )
    => LET conventional == Existing(C13_ConventionalOrder, key_files)
       IN  /\ Credentials(attempts) =
                << Tried("agent", NoPath) >>
                \o [i \in 1..Len(conventional) |->
                      Tried("pubkey", conventional[i])]
           /\ \A i \in 1..Len(attempts) : ~attempts[i].ok

\* C13 happens: the chain failed for a missing key with the agent and at
\* least two conventional keys tried.
C13_MissingKeyChainFailed ==
    /\ ssh_pc = "done"
    /\ ssh_result.err = "public_key_failed"
    /\ ExpandPath(app_session.auth_method.key_path) \notin key_files
    /\ Len(attempts) >= 3

\* The paths of the attempts made on conventional key files, in order.
FallbackAttempts(atts) ==
    LET fb == SelectSeq(atts, LAMBDA a : a.phase = "fallback")
    IN  [i \in 1..Len(fb) |-> fb[i].path]

\* C14: whenever the chain falls back to the conventional key files, for a
\* PublicKey or an Agent request, the files tried so far are the first of
\* the existing ones in the priority id_rsa, id_ecdsa, id_ed25519.
C14_FallbackPriority ==
    IsPrefix(FallbackAttempts(attempts),
             Existing(C13_ConventionalOrder, key_files))

\* The messages that report the outcome of an attempt.
C15_SuccessMessages ==
    {"Ed25519 key authentication successful", "Key authentication successful",
     "SSH agent authentication successful",
     "Fallback key authentication successful", "Fallback key successful"}

C15_FailureMessages ==
    {"Ed25519 key failed", "Fallback key failed", "SSH agent failed"}

\* How many events of the call's session carry one of the given messages
\* with status "connecting".
C15_Reported(messages) ==
    Cardinality({i \in 1..Len(status_events) :
                   /\ status_events[i].session_id = app_session.id
                   /\ status_events[i].status = "connecting"
                   /\ status_events[i].message[1] \in messages})

\* C15: when connect has returned, every authentication attempt it made has
\* had its outcome reported as a "connecting" status event of the session:
\* there is a failure report for every failed attempt and a success
\* report for every successful one.
C15_AttemptsReported ==
    ssh_pc = "done" =>
       /\ Cardinality({i \in 1..Len(attempts) : ~attempts[i].ok})
            <= C15_Reported(C15_FailureMessages)
       /\ Cardinality({i \in 1..Len(attempts) : attempts[i].ok})
            <= C15_Reported(C15_SuccessMessages)

\* C16: when the whole chain has failed, for a PublicKey or an Agent
\* request, the error connect returns lists exactly the credentials that
\* were tried, in the order of the attempts.
C16_ErrorListsAttempts ==
    ( /\ ssh_pc = "done"
      /\ ssh_result.err \in {"public_key_failed", "agent_failed"} )
    => [i \in 1..Len(ssh_result.tried) |->
          Tried(ssh_result.tried[i].kind,
                ExpandPath(ssh_result.tried[i].path))]
       = Credentials(attempts)

\* The errors of lines 65-110, before authentication starts.
TransportErrors ==
    {"emit_err", "resolve_err", "tcp_err", "session_err", "handshake_err",
     "no_publickey"}

\* C17: a Password connect that gets as far as authentication makes one
\* password attempt and no agent or key-file attempt.
C17_PasswordAttemptOnly ==
    ( /\ ssh_pc = "done"
      /\ app_session.auth_method.kind = "Password"
      /\ ssh_result.err \notin TransportErrors )
    => /\ Len(attempts) = 1
       /\ attempts[1].kind = "password"

\* C18: a connect that has returned an error has emitted exactly one status
\* event with an error status for its session.
C18_OneErrorEvent ==
    (ssh_pc = "done" /\ ~ssh_result.ok)
    => Cardinality({i \in 1..Len(status_events) :
                      /\ status_events[i].session_id = app_session.id
                      /\ status_events[i].status
                           \notin {"connecting", "connected", "disconnected"}})
       = 1

DefaultSize == "80x24"

NewSizes == {"120x40"}

TermReply(op, id, ok, err) == [op |-> op, id |-> id, ok |-> ok, err |-> err]

\* create_session: a fresh ActiveSession with no client and no terminal.
\* Followed for ids that have no entry yet.
CreateSession(id, kind) ==
    /\ ~sessions[id].present
    /\ sessions' = [sessions EXCEPT ![id] =
                      [present |-> TRUE, kind |-> kind,
                       status |-> "Disconnected", terminal |-> "None"]]
    /\ term_reply' = TermReply("create_session", id, TRUE, "none")
    /\ UNCHANGED <<term_pc, term_size, channel_mutex, read_task,
                   channel_open, window_changes, writeVars,
                   notTermVars>>

\* connect_session, under the session's write lock from start to end:
\* status Connecting, then SshClient::connect, create_channel and
\* SshTerminal::new (request_pty, request_shell, a new channel mutex, a
\* new input queue, the read task and the write task spawned), or
\* LocalTerminal::new.  Only a failure of SshClient::connect records Error;
\* the other failures return through `?`.  Followed for sessions
\* that have no terminal.
ConnectSession(id) ==
    /\ term_pc[id] = "idle"
    /\ sessions[id].present
    /\ sessions[id].terminal = "None"
    /\ \E outcome \in {"client_err", "channel_err", "terminal_err", "ok"} :
         /\ (sessions[id].kind = "Local") => outcome \in {"terminal_err", "ok"}
         /\ sessions' = [sessions EXCEPT
               ![id].status = CASE outcome = "ok" -> "Connected"
                                [] outcome = "client_err" -> "Error"
                                [] OTHER -> "Connecting",
               ![id].terminal = IF outcome = "ok" THEN sessions[id].kind
                                ELSE "None"]
         /\ IF outcome = "ok" /\ sessions[id].kind = "Ssh"
            THEN /\ read_task' = [read_task EXCEPT ![id] = "spawned"]
                 /\ channel_open' = [channel_open EXCEPT ![id] = TRUE]
                 /\ term_size' = [term_size EXCEPT ![id] = DefaultSize]
                 /\ window_changes' = [window_changes EXCEPT ![id] = <<>>]
                 /\ channel_mutex' = [channel_mutex EXCEPT ![id] = "free"]
                 /\ write_task' = [write_task EXCEPT ![id] = "recv"]
                 /\ input_receiver' = [input_receiver EXCEPT ![id] = <<>>]
            ELSE UNCHANGED <<read_task, channel_open, term_size,
                             window_changes, channel_mutex, write_task,
                             input_receiver>>
         /\ term_reply' = TermReply("connect_session", id, outcome = "ok",
                                    IF outcome = "ok" THEN "none" ELSE outcome)
    /\ UNCHANGED <<term_pc, channel_data, notTermVars>>

\* The read task starts: it locks the channel mutex and keeps the guard
\* for as long as its loop runs.
ReadTaskLock(id) ==
    /\ read_task[id] = "spawned"
    /\ channel_mutex[id] = "free"
    /\ channel_mutex' = [channel_mutex EXCEPT ![id] = "read_task"]
    /\ read_task' = [read_task EXCEPT ![id] = "waiting"]
    /\ UNCHANGED <<sessions, term_pc, term_size, channel_open,
                   window_changes, term_reply, writeVars,
                   notTermVars>>

\* channel.wait() returns None: the loop ends and the guard is dropped.
ReadTaskEnd(id) ==
    /\ read_task[id] = "waiting"
    /\ ~channel_open[id]
    /\ channel_mutex' = [channel_mutex EXCEPT ![id] = "free"]
    /\ read_task' = [read_task EXCEPT ![id] = "ended"]
    /\ UNCHANGED <<sessions, term_pc, term_size, channel_open,
                   window_changes, term_reply, writeVars,
                   notTermVars>>

\* The remote side closes the channel.
ChannelClose(id) ==
    /\ channel_open[id]
    /\ channel_open' = [channel_open EXCEPT ![id] = FALSE]
    /\ UNCHANGED <<sessions, term_pc, term_size, channel_mutex, read_task,
                   window_changes, term_reply, writeVars,
                   notTermVars>>

\* resize_terminal up to the channel lock: the lookup, the session's write
\* lock, the match on session.terminal; SshTerminal::resize records the
\* new size and goes for the channel mutex, LocalTerminal::resize resizes
\* the pty at once.
ResizeTerminal(id, size) ==
    /\ term_pc[id] = "idle"
    /\ Len(window_changes[id]) < MaxResizes
    /\ IF ~sessions[id].present
       THEN /\ term_reply' = TermReply("resize_terminal", id, FALSE,
                                       "Session not found")
            /\ UNCHANGED <<term_pc, term_size>>
       ELSE IF sessions[id].terminal = "None"
       THEN /\ term_reply' = TermReply("resize_terminal", id, FALSE,
                                       "No active terminal")
            /\ UNCHANGED <<term_pc, term_size>>
       ELSE IF sessions[id].terminal = "Local"
       THEN /\ \E ok \in BOOLEAN :
                 term_reply' = TermReply("resize_terminal", id, ok,
                                         IF ok THEN "none" ELSE "resize")
            /\ UNCHANGED <<term_pc, term_size>>
       ELSE /\ term_size' = [term_size EXCEPT ![id] = size]
            /\ term_pc' = [term_pc EXCEPT ![id] = "resize"]
            /\ UNCHANGED term_reply
    /\ UNCHANGED <<sessions, channel_mutex, read_task, channel_open,
                   window_changes, writeVars,
                   notTermVars>>

\* SshTerminal::resize once it has the channel mutex: window_change is
\* sent, and resize_terminal returns what it returned.
ResizeWindowChange(id) ==
    /\ term_pc[id] = "resize"
    /\ channel_mutex[id] = "free"
    /\ \E ok \in BOOLEAN :
         /\ window_changes' =
              IF ok THEN [window_changes EXCEPT ![id] = Append(@, term_size[id])]
                    ELSE window_changes
         /\ term_reply' = TermReply("resize_terminal", id, ok,
                                    IF ok THEN "none" ELSE "window_change")
    /\ term_pc' = [term_pc EXCEPT ![id] = "idle"]
    /\ UNCHANGED <<sessions, term_size, channel_mutex, read_task,
                   channel_open, writeVars,
                   notTermVars>>

\* disconnect_session up to the channel lock: the client is taken and
\* disconnected, the terminal is taken; an SshTerminal is closed, which
\* needs the channel mutex, a LocalTerminal is killed.
DisconnectSession(id) ==
    /\ term_pc[id] = "idle"
    /\ IF ~sessions[id].present
       THEN /\ term_reply' = TermReply("disconnect_session", id, FALSE,
                                       "Session not found")
            /\ UNCHANGED <<sessions, term_pc, channel_open>>
       ELSE IF sessions[id].terminal = "Ssh"
       THEN /\ sessions' = [sessions EXCEPT ![id].terminal = "None"]
            /\ channel_open' = [channel_open EXCEPT ![id] = FALSE]
            /\ term_pc' = [term_pc EXCEPT ![id] = "close"]
            /\ UNCHANGED term_reply
       ELSE /\ sessions' = [sessions EXCEPT ![id].terminal = "None",
                                            ![id].status = "Disconnected"]
            /\ term_reply' = TermReply("disconnect_session", id, TRUE, "none")
            /\ UNCHANGED <<term_pc, channel_open>>
    /\ UNCHANGED <<term_size, channel_mutex, read_task, window_changes,
                   writeVars,
                   notTermVars>>

\* SshTerminal::close once it has the channel mutex (its result is
\* ignored), then the rest of disconnect_session.
DisconnectClose(id) ==
    /\ term_pc[id] = "close"
    /\ channel_mutex[id] = "free"
    /\ sessions' = [sessions EXCEPT ![id].status = "Disconnected"]
    /\ term_reply' = TermReply("disconnect_session", id, TRUE, "none")
    /\ term_pc' = [term_pc EXCEPT ![id] = "idle"]
    /\ UNCHANGED <<term_size, channel_mutex, read_task, channel_open,
                   window_changes, writeVars,
                   notTermVars>>

\* SessionManager::send_input (181-194) under the session's read lock:
\* "Session not found" without entry; with an input_sender the input is
\* queued for the write task, without one nothing happens and the call
\* returns Ok.  disconnect_session clears input_sender after
\* SshTerminal::close has returned.  Followed for SSH sessions.
TermSendInput(id, input) ==
    /\ term_pc[id] = "idle"
    /\ sessions[id].kind # "Local"
    /\ Len(input_receiver[id]) + Len(channel_data[id]) < MaxSends
    /\ IF ~sessions[id].present
       THEN /\ term_reply' = TermReply("send_input", id, FALSE,
                                       "Session not found")
            /\ UNCHANGED input_receiver
       ELSE /\ term_reply' = TermReply("send_input", id, TRUE, "none")
            /\ input_receiver' =
                 IF sessions[id].terminal = "Ssh"
                 THEN [input_receiver EXCEPT ![id] = Append(@, input)]
                 ELSE input_receiver
    /\ UNCHANGED <<sessions, term_pc, term_size, channel_mutex, read_task,
                   channel_open, window_changes, write_task, channel_data,
                   notTermVars>>

\* The write task: write_input_receiver.recv() returns an input and the
\* task goes for the channel mutex.
WriteTaskRecv(id) ==
    /\ write_task[id] = "recv"
    /\ input_receiver[id] # <<>>
    /\ write_task' = [write_task EXCEPT ![id] = "lock"]
    /\ UNCHANGED <<sessions, term_pc, term_size, channel_mutex, read_task,
                   channel_open, window_changes, term_reply, input_receiver,
                   channel_data, notTermVars>>

\* The write task gets the channel mutex.
WriteTaskLock(id) ==
    /\ write_task[id] = "lock"
    /\ channel_mutex[id] = "free"
    /\ channel_mutex' = [channel_mutex EXCEPT ![id] = "write_task"]
    /\ write_task' = [write_task EXCEPT ![id] = "data"]
    /\ UNCHANGED <<sessions, term_pc, term_size, read_task, channel_open,
                   window_changes, term_reply, input_receiver, channel_data,
                   notTermVars>>

\* channel_guard.data(input.as_bytes()).await returns (its result is
\* ignored) and the guard is dropped at the end of the iteration.
WriteTaskData(id) ==
    /\ write_task[id] = "data"
    /\ channel_mutex' = [channel_mutex EXCEPT ![id] = "free"]
    /\ write_task' = [write_task EXCEPT ![id] = "recv"]
    /\ channel_data' = [channel_data EXCEPT
                          ![id] = Append(@, Head(input_receiver[id]))]
    /\ input_receiver' = [input_receiver EXCEPT ![id] = Tail(@)]
    /\ UNCHANGED <<sessions, term_pc, term_size, read_task, channel_open,
                   window_changes, term_reply, notTermVars>>

\* The session manager: sessions are created, connected, resized and
\* disconnected while the read task runs and the remote side may close.
NextTerm ==
    \/ \E id \in Ids : \E kind \in {"Ssh", "Local"} : CreateSession(id, kind)
    \/ \E id \in Ids : ConnectSession(id)
    \/ \E id \in Ids : ReadTaskLock(id)
    \/ \E id \in Ids : ReadTaskEnd(id)
    \/ \E id \in Ids : ChannelClose(id)
    \/ \E id \in Ids : \E size \in NewSizes : ResizeTerminal(id, size)
    \/ \E id \in Ids : ResizeWindowChange(id)
    \/ \E id \in Ids : DisconnectSession(id)
    \/ \E id \in Ids : DisconnectClose(id)

SpecTerm == Init /\ [][NextTerm]_vars

\* The scheduling of the tokio runtime: a spawned task and a call that can
\* go on do go on.  When the remote side closes is up to the remote side.
FairnessTerm ==
    /\ \A id \in Ids : WF_vars(ReadTaskLock(id))
    /\ \A id \in Ids : WF_vars(ReadTaskEnd(id))
    /\ \A id \in Ids : WF_vars(ResizeWindowChange(id))
    /\ \A id \in Ids : WF_vars(DisconnectClose(id))

SpecTermFair == Init /\ [][NextTerm]_vars /\ FairnessTerm

\* C20: a resize_terminal on a session with a live SSH terminal is carried
\* through (it gets to send its window-change request and returns), and a
\* resize_terminal on an unknown id or on a session without terminal fails
\* with the "No active terminal" error and changes no session state.
C20_Resize ==
    /\ \A id \in Ids : (term_pc[id] = "resize") ~> (term_pc[id] = "idle")
    /\ [][\A id \in Ids :
            ( /\ term_reply'.op = "resize_terminal"
              /\ term_reply'.id = id
              /\ term_reply' # term_reply
              /\ (~sessions[id].present \/ sessions[id].terminal = "None") )
            => /\ ~term_reply'.ok
               /\ term_reply'.err = "No active terminal"
               /\ UNCHANGED <<sessions, term_size, window_changes>>]_vars

\* C20 (the live terminal alone): a resize that has reached
\* SshTerminal::resize returns.
C20_ResizeReturns ==
    \A id \in Ids : (term_pc[id] = "resize") ~> (term_pc[id] = "idle")

\* ------------------------------------------------- claims on teardown
\* C21, C24: the handles of connection c are all taken.
C21_AllTaken(c) ==
    ~reader_handle[c] /\ ~writer_handle[c] /\ ~input_handle[c]

\* C21: close is idempotent.  No thread of any connection is joined more
\* than once; when the last close() on a connection has returned (the one
\* Drop runs, after disconnect's own close() or alone for a displaced
\* connection) each of its three threads has been joined exactly once; and
\* during the close() that follows disconnect's close() every handle is
\* already taken, so that its joins find nothing to wait for.
C21_CloseIdempotent ==
    /\ \A c \in Conns :
         joins[c].reader <= 1 /\ joins[c].writer <= 1 /\ joins[c].input <= 1
    /\ closer.kind # "none" /\ closer.pc = "done" =>
         joins[closer.c] = [reader |-> 1, writer |-> 1, input |-> 1]
    /\ closer.kind = "disconnect" /\ closer.call = "drop" =>
         /\ C21_AllTaken(closer.c)
         /\ Joinable(reader_handle[closer.c], reader_pc[closer.c])
         /\ Joinable(writer_handle[closer.c], writer_pc[closer.c])
         /\ Joinable(input_handle[closer.c], input_pc[closer.c])

\* The close() that Drop runs after disconnect's close() has returned.
C21_SecondCloseReturned ==
    /\ closer.kind = "disconnect"
    /\ closer.call = "drop"
    /\ closer.pc = "done"
    /\ joins[closer.c] = [reader |-> 1, writer |-> 1, input |-> 1]

\* ------------------------------------------ claims on ssh.rs lookups
\* C22: whenever get_connection_status(id) returns, in any state reached
\* by connects (in flight, failed or stored), inputs, listings and
\* disconnects, its answer is Connected if the registry holds an entry for
\* id at that moment and Disconnected if it holds none, and the call leaves
\* the registry as it was.
C22_StatusIsRegistryMembership ==
    [][ ssh_reply' # ssh_reply /\ ssh_reply'.op = "get_connection_status"
        => /\ ssh_connections' = ssh_connections
           /\ ssh_connections[ssh_reply'.id].present
                => ssh_reply'.status = "Connected"
           /\ ~ssh_connections[ssh_reply'.id].present
                => ssh_reply'.status = "Disconnected" ]_vars

\* get_connection_status answers Connected for a session that was
\* disconnected and connected again, while the other id is absent.
C22_ConnectedAfterReconnect ==
    /\ ssh_reply.op = "get_connection_status"
    /\ ssh_reply.id = "s1"
    /\ ssh_reply.status = "Connected"
    /\ ssh_connections["s1"].present
    /\ ~ssh_connections["s2"].present
    /\ \E i \in 1..Len(status_events) :
         status_events[i].status = "disconnected"

\* The input path with the scheduling the program runs under.
SpecInputFair == Init /\ [][NextInput]_vars /\ Fairness

\* C23, C24: the three shutdown flags of connection c are set.
C23_FlagsSet(c) == reader_shutdown[c] /\ writer_shutdown[c] /\ input_shutdown[c]

\* C23: the three threads of connection c have ended.
C23_AllExited(c) ==
    reader_pc[c] = "exited" /\ writer_pc[c] = "exited" /\ input_pc[c] = "exited"

\* C23: teardown terminates.  Once close() has set the three flags of a
\* connection its reader, writer and input threads all end, and the manager
\* call that runs the close() returns and releases the registry, whatever
\* the threads were doing: an iteration begun before the store, input still
\* buffered, items still on the writer queue.
C23_TeardownTerminates ==
    /\ \A c \in Conns : C23_FlagsSet(c) ~> C23_AllExited(c)
    /\ ~RegistryFree ~> RegistryFree

\* close() has joined all three threads while the writer queue still held
\* an item when the writer saw its flag.
C23_ClosedWithQueuedItem ==
    /\ closer.kind = "disconnect"
    /\ closer.pc = "done"
    /\ C23_AllExited(closer.c)
    /\ writer_exit[closer.c] = "shutdown"
    /\ Len(enqueued[closer.c]) > 0
    /\ Len(Concat(enqueued[closer.c])) > Len(channel_out[closer.c])

\* C24: in close() the three shutdown flags are set before the first join
\* begins, and the joins come in the order reader, writer, input: a
\* connection with any thread joined has its three flags set, its writer is
\* joined only after its reader and its input thread only after its writer;
\* and every step that joins a thread is taken with the three flags set.
C24_FlagsThenOrderedJoins ==
    \A c \in Conns :
        /\ joins[c].reader + joins[c].writer + joins[c].input > 0
             => C23_FlagsSet(c)
        /\ closer.kind # "none" /\ closer.c = c
             /\ closer.pc \in {"join_reader", "join_writer", "join_input"}
             => C23_FlagsSet(c)
        /\ joins[c].writer <= joins[c].reader
        /\ joins[c].input <= joins[c].writer

\* close() has joined the reader and waits for the writer, which still
\* runs; the input thread has not been joined.
C24_WaitingForWriter ==
    /\ closer.kind # "none"
    /\ closer.pc = "join_writer"
    /\ joins[closer.c] = [reader |-> 1, writer |-> 0, input |-> 0]
    /\ writer_handle[closer.c]
    /\ writer_pc[closer.c] # "exited"
    /\ C23_FlagsSet(closer.c)

\* ------------------------------------- ssh_new.rs, the channel mutex
\* The reader and the writer thread of one connection around
\* shared_channel (Arc<Mutex<Channel>>).  std::sync::Mutex promises no
\* order among the threads that want it: whoever calls lock() while it is
\* free gets it, a thread blocked in lock() included.

\* The other of the two threads.
OtherPump(who) == IF who = "reader" THEN "writer" ELSE "reader"

\* Where thread `who` is.
PumpAt(who) == IF who = "reader" THEN reader_at ELSE writer_at

\* The count of a blocked thread that sees the other thread start one more
\* call.
OneMoreCall(n) == Min(n + 1, 2)

\* lock().unwrap() by `who` on the free mutex: `who` holds it; a thread
\* blocked in lock() goes on waiting, through one more call.
Acquire(who) ==
    /\ shared_channel = "free"
    /\ shared_channel' = who
    /\ waited' = [waited EXCEPT
                    ![who] = 0,
                    ![OtherPump(who)] =
                       IF PumpAt(OtherPump(who)) = "blocked"
                       THEN OneMoreCall(@) ELSE @]

\* A guard that stays alive while its thread sleeps.
GuardHeldInSleep(holder, at) == IF at = "sleep" THEN holder ELSE "free"

\* The MutexGuard is a local of the block around the call (74-77, 121-124)
\* and is dropped where the block ends, wherever the thread goes next.
GuardDropped(holder, at) == "free"

\* The reader's loop test and `reader_channel.lock().unwrap()`: the thread
\* ends when its flag is set, takes the free mutex or blocks.
ChanReaderLoop ==
    /\ reader_at = "loop"
    /\ IF pump_shutdown
       THEN /\ reader_at' = "exited"
            /\ UNCHANGED <<shared_channel, waited>>
       ELSE IF shared_channel = "free"
       THEN /\ reader_at' = "read"
            /\ Acquire("reader")
       ELSE /\ reader_at' = "blocked"
            /\ waited' = [waited EXCEPT !.reader = 1]
            /\ UNCHANGED shared_channel
    /\ UNCHANGED <<writer_at, queued, pump_shutdown, notChanVars>>

\* The reader blocked in lock() gets the mutex.
ChanReaderAcquire ==
    /\ reader_at = "blocked"
    /\ reader_at' = "read"
    /\ Acquire("reader")
    /\ UNCHANGED <<writer_at, queued, pump_shutdown, notChanVars>>

\* Where the reader goes with the result of channel.read: Ok(n) to the next
\* iteration, WouldBlock to its sleep, Ok(0) and other errors out of the loop.
AfterRead(result) ==
    CASE result = "Data" -> "loop"
      [] result = "WouldBlock" -> "sleep"
      [] OTHER -> "exited"

\* channel.read(&mut buffer) returns and the block ends.
ChanReaderRead(result) ==
    /\ reader_at = "read"
    /\ reader_at' = AfterRead(result)
    /\ shared_channel' = GuardDropped("reader", AfterRead(result))
    /\ UNCHANGED <<writer_at, queued, pump_shutdown, waited, notChanVars>>

\* thread::sleep(10 ms) of the reader is over.
ChanReaderWake ==
    /\ reader_at = "sleep"
    /\ reader_at' = "loop"
    /\ UNCHANGED <<shared_channel, writer_at, queued, pump_shutdown, waited,
                   notChanVars>>

\* The writer's loop test and writer_rx.try_recv(): the thread ends when
\* its flag is set, sleeps on Empty, and with an item in hand calls
\* `writer_channel.lock().unwrap()`.
ChanWriterLoop ==
    /\ writer_at = "loop"
    /\ IF pump_shutdown
       THEN /\ writer_at' = "exited"
            /\ UNCHANGED <<shared_channel, waited, queued>>
       ELSE IF queued = 0
       THEN /\ writer_at' = "sleep"
            /\ UNCHANGED <<shared_channel, waited, queued>>
       ELSE /\ queued' = queued - 1
            /\ IF shared_channel = "free"
               THEN /\ writer_at' = "write"
                    /\ Acquire("writer")
               ELSE /\ writer_at' = "blocked"
                    /\ waited' = [waited EXCEPT !.writer = 1]
                    /\ UNCHANGED shared_channel
    /\ UNCHANGED <<reader_at, pump_shutdown, notChanVars>>

\* The writer blocked in lock() gets the mutex.
ChanWriterAcquire ==
    /\ writer_at = "blocked"
    /\ writer_at' = "write"
    /\ Acquire("writer")
    /\ UNCHANGED <<reader_at, queued, pump_shutdown, notChanVars>>

\* Where the writer goes with the result of write_all and flush.
AfterWrite(ok) == IF ok THEN "loop" ELSE "exited"

\* channel.write_all(&data).and_then(|_| channel.flush()) returns and the
\* block ends.
ChanWriterWrite(ok) ==
    /\ writer_at = "write"
    /\ writer_at' = AfterWrite(ok)
    /\ shared_channel' = GuardDropped("writer", AfterWrite(ok))
    /\ UNCHANGED <<reader_at, queued, pump_shutdown, waited, notChanVars>>

\* thread::sleep(10 ms) of the writer is over.
ChanWriterWake ==
    /\ writer_at = "sleep"
    /\ writer_at' = "loop"
    /\ UNCHANGED <<shared_channel, reader_at, queued, pump_shutdown, waited,
                   notChanVars>>

\* The input thread puts one more item on the writer queue.
ChanEnqueue ==
    /\ ~pump_shutdown
    /\ writer_at # "exited"
    /\ queued < MaxSends
    /\ queued' = queued + 1
    /\ UNCHANGED <<shared_channel, reader_at, writer_at, pump_shutdown,
                   waited, notChanVars>>

\* close() stores the shutdown flags.
ChanClose ==
    /\ ~pump_shutdown
    /\ pump_shutdown' = TRUE
    /\ UNCHANGED <<shared_channel, reader_at, writer_at, queued, waited,
                   notChanVars>>

\* The results channel.read can have.
ReadResults == {"Data", "WouldBlock", "Eof", "Error"}

\* One connection's reader and writer around the channel mutex.
NextChan ==
    \/ ChanReaderLoop
    \/ ChanReaderAcquire
    \/ \E result \in ReadResults : ChanReaderRead(result)
    \/ ChanReaderWake
    \/ ChanWriterLoop
    \/ ChanWriterAcquire
    \/ \E ok \in BOOLEAN : ChanWriterWrite(ok)
    \/ ChanWriterWake
    \/ ChanEnqueue
    \/ ChanClose

SpecChan == Init /\ [][NextChan]_vars

\* C25 (as stated): the reader holds the channel mutex exactly while it is
\* in its one channel.read call and the writer exactly while it is in its
\* one write_all-and-flush, never asleep and never at the loop test; hence
\* a thread blocked in lock() waits through at most one call of the other.
C25_LockDiscipline ==
    /\ shared_channel = "reader" <=> reader_at = "read"
    /\ shared_channel = "writer" <=> writer_at = "write"
    /\ waited.reader <= 1
    /\ waited.writer <= 1

\* C25 (amended): the reader holds the channel mutex exactly while it is in
\* its one channel.read call and the writer exactly while it is in its one
\* write_all-and-flush: no thread holds it while it sleeps, tests its flag,
\* waits for the lock or has ended, so a thread blocked in lock() finds the
\* mutex free as soon as the call in progress returns.
C25_LockHeldForOneCall ==
    /\ shared_channel = "reader" <=> reader_at = "read"
    /\ shared_channel = "writer" <=> writer_at = "write"
    /\ PumpAt("reader") = "blocked" => shared_channel # "reader"
    /\ PumpAt("writer") = "blocked" => shared_channel # "writer"

\* The writer is blocked in lock() during a read of the reader, and the
\* reader sleeps without the mutex while the writer writes.
C25_WriterWaitsForRead ==
    /\ writer_at = "blocked"
    /\ shared_channel = "reader"
    /\ reader_at = "read"
    /\ waited.writer = 1

\* ------------------------------------------ claims on SshTerminal's lock
\* One SSH session of the session manager with its read task and its write
\* task: it is created, connected, takes input and resizes, is disconnected
\* and connected again, and the remote side may close the channel.
NextWrite ==
    \/ \E id \in InputIds : CreateSession(id, "Ssh")
    \/ \E id \in InputIds : ConnectSession(id)
    \/ \E id \in InputIds : ReadTaskLock(id)
    \/ \E id \in InputIds : ReadTaskEnd(id)
    \/ \E id \in InputIds : ChannelClose(id)
    \/ \E id \in InputIds : \E input \in Keystrokes(id) :
         TermSendInput(id, input)
    \/ \E id \in InputIds : WriteTaskRecv(id)
    \/ \E id \in InputIds : WriteTaskLock(id)
    \/ \E id \in InputIds : WriteTaskData(id)
    \/ \E id \in InputIds : \E size \in NewSizes : ResizeTerminal(id, size)
    \/ \E id \in InputIds : ResizeWindowChange(id)
    \/ \E id \in InputIds : DisconnectSession(id)
    \/ \E id \in InputIds : DisconnectClose(id)

\* The scheduling of the tokio runtime for the write task as well: it
\* takes an input that is queued, gets the mutex when it is free and
\* finishes its write.
FairnessWrite ==
    /\ FairnessTerm
    /\ \A id \in Ids : WF_vars(WriteTaskRecv(id))
    /\ \A id \in Ids : WF_vars(WriteTaskLock(id))
    /\ \A id \in Ids : WF_vars(WriteTaskData(id))

SpecWriteFair == Init /\ [][NextWrite]_vars /\ FairnessWrite

\* C26: the read task of an SshTerminal does not hold the channel mutex
\* while it is suspended in channel.wait(); so the write task, once it has
\* an input in hand, gets the mutex unless the channel closes, and a
\* resize() and a close() that wait for the mutex get it and return.
C26_ReadTaskYieldsLock ==
    /\ [][\A id \in Ids :
            read_task'[id] = "waiting" => channel_mutex'[id] # "read_task"]_vars
    /\ \A id \in Ids :
         (write_task[id] = "lock" /\ channel_open[id])
            ~> (write_task[id] # "lock" \/ ~channel_open[id])
    /\ \A id \in Ids : (term_pc[id] = "resize") ~> (term_pc[id] = "idle")
    /\ \A id \in Ids : (term_pc[id] = "close") ~> (term_pc[id] = "idle")

\* C26 (the write task alone): with an input in hand and the channel open
\* the write task gets the mutex.
C26_WriteTaskGetsLock ==
    \A id \in Ids :
        (write_task[id] = "lock" /\ channel_open[id])
           ~> (write_task[id] # "lock" \/ ~channel_open[id])

\* ------------------------------------------- claims on the registry lock
\* C27: a join of close() is waiting for a thread that still runs.
C27_JoinBlocked ==
    /\ closer.kind # "none"
    /\ \/ closer.pc = "join_reader" /\ reader_handle[closer.c]
            /\ reader_pc[closer.c] # "exited"
       \/ closer.pc = "join_writer" /\ writer_handle[closer.c]
            /\ writer_pc[closer.c] # "exited"
       \/ closer.pc = "join_input" /\ input_handle[closer.c]
            /\ input_pc[closer.c] # "exited"

\* C27: the registry mutex is not held while the threads of a connection
\* are being joined, so a connect of another session that is ready to store
\* its connection never finds the registry held by a caller that waits in a
\* join.
C27_RegistryFreeDuringJoins ==
    /\ C27_JoinBlocked => RegistryFree
    /\ \A id \in Ids :
         (connect_pc[id] = "spawned" /\ C27_JoinBlocked /\ closer.id # id)
            => RegistryFree

\* ------------------------------------------------- claims on the writer
\* C28: the first k items the input thread has put on the writer queue of c,
\* end to end.
C28_FirstItems(c, k) == Concat(SubSeq(enqueued[c], 1, k))

\* C28: what the writer of c has written is, in order, whole items
\* of its queue; the items after them are the ones still queued while the
\* writer runs; a writer that ended on an error may have written the
\* beginning of the item that failed.
C28_WrittenInOrder(c) ==
    IF writer_exit[c] = "error"
    THEN \E k \in 0..(Len(enqueued[c]) - 1) :
           \E j \in 0..Len(enqueued[c][k + 1]) :
             channel_out[c] =
               C28_FirstItems(c, k) \o SubSeq(enqueued[c][k + 1], 1, j)
    ELSE \E k \in 0..Len(enqueued[c]) :
           /\ channel_out[c] = C28_FirstItems(c, k)
           /\ InLoop(writer_pc[c])
                => writer_rx[c] = SubSeq(enqueued[c], k + 1, Len(enqueued[c]))

\* C28: the writer writes the queue items in the order in which the input
\* thread enqueued them, each one whole, and after the first item whose
\* write or flush fails it writes nothing more.
C28_WriterFifo ==
    [][\A c \in Conns :
         /\ C28_WrittenInOrder(c)'
         /\ (writer_exit[c] = "error" /\ writer_exit'[c] = "error")
              => channel_out'[c] = channel_out[c]]_vars

\* The writer has written two different items in the order in which they
\* were enqueued.
C28_TwoItemsWritten ==
    \E c \in Conns :
        /\ Len(enqueued[c]) = 2
        /\ enqueued[c][1] # enqueued[c][2]
        /\ channel_out[c] = enqueued[c][1] \o enqueued[c][2]
        /\ writer_pc[c] = "running"

\* ------------------------------------------- claims on the input thread
\* A string of n bytes.
Block(n) == [i \in 1..n |-> 97]

\* What the UI pastes: a string as long as the size threshold of the flush
\* condition, and a single byte.
Pastes == {Block(FlushSizeBytes), <<97>>}

\* Pasting: a session is opened and takes long and short inputs while
\* time passes and the writer works.
NextPaste ==
    \/ \E id \in InputIds : OpenSession(id)
    \/ \E id \in InputIds : ManagerConnectSpawn(id)
    \/ \E id \in InputIds : ManagerConnectStore(id)
    \/ \E id \in InputIds : ConnectSshOk(id)
    \/ \E id \in InputIds : \E input \in Pastes : SendTerminalInput(id, input)
    \/ \E c \in Conns : WriterWrite(c)
    \/ \E c \in Conns : InputIterate(c)
    \/ Tick

SpecPaste == Init /\ [][NextPaste]_vars

\* C29: more than a flush interval has passed since last_flush, or the buffer
\* has grown past the size threshold.
C29_FlushDue(buf, age) ==
    \/ buf # <<>> /\ age > FlushIntervalMs
    \/ Len(buf) > FlushSizeBytes

\* C29: in every iteration of the input thread's loop, after the drain, the
\* whole buffer goes to the writer queue as one item and is cleared if it is
\* not empty and more than a flush interval has passed since the last flush,
\* or if it is longer than 1024 bytes whatever the time; otherwise it is
\* kept and nothing is queued.  So the buffer holds at most 1024 bytes at
\* the end of every iteration and no empty item is ever queued.
C29_FlushPolicy ==
    [][\A c \in Conns :
         /\ InputIterate(c) =>
              LET buf == Drain(buffer[c], input_rx[c]) IN
              IF C29_FlushDue(buf, flush_age[c])
              THEN /\ buffer'[c] = <<>>
                   /\ writer_pc[c] # "exited" =>
                        /\ writer_rx'[c] = Append(writer_rx[c], buf)
                        /\ enqueued'[c] = Append(enqueued[c], buf)
              ELSE /\ buffer'[c] = buf
                   /\ writer_rx'[c] = writer_rx[c]
                   /\ enqueued'[c] = enqueued[c]
         /\ Len(buffer'[c]) <= FlushSizeBytes
         /\ \A i \in 1..Len(enqueued'[c]) : enqueued'[c][i] # <<>>]_vars

\* A buffer of more than 1024 bytes, drained from two inputs, has gone to
\* the writer queue as one item and the buffer is empty.
C29_FlushedBySize ==
    \E c \in Conns :
        /\ Len(accepted[c]) = 2
        /\ Len(enqueued[c]) = 1
        /\ Len(enqueued[c][1]) > FlushSizeBytes
        /\ enqueued[c][1] = Concat(accepted[c])
        /\ buffer[c] = <<>>

\* C30: on shutdown the input thread puts what its buffer holds on the
\* writer queue, as one item, in the step in which it leaves its loop and
\* ends, and puts nothing there when the buffer is empty; once it has ended
\* nothing more is queued.
C30_RemainderQueuedOnce ==
    [][\A c \in Conns :
         /\ InputShutdown(c) =>
              IF buffer[c] # <<>>
              THEN writer_rx'[c] = Append(writer_rx[c], buffer[c])
              ELSE writer_rx'[c] = writer_rx[c]
         /\ (input_pc[c] = "exited" /\ input_pc'[c] = "exited")
              => Len(writer_rx'[c]) <= Len(writer_rx[c])]_vars

\* ------------------------------------------ claims on the registry (2)
\* A listing that leaves out the sessions whose reader has ended.
ListSessionsReading(map) ==
    {id \in Ids : map[id] # NoConn /\ reader_pc[map[id]] # "exited"}

\* SshManager::list_sessions: connections.keys().cloned().collect()
list_sessions(map) == {id \in Ids : map[id] # NoConn}

\* C31: connection c is not being closed by a manager call.
C31_NotClosing(c) == closer.kind = "none" \/ closer.c # c

C32_PastVerdict == {"channel", "sftp", "store", "stored"}

\* C32: the authentication chain of ssh.rs stops at the first success: a
\* successful attempt is the last attempt of its call, no step adds an
\* attempt after one, and connect is at the channel creation or beyond only
\* with an authenticated session whose last attempt succeeded.
C32_ChainStopsAtFirstSuccess ==
    [][/\ \A i \in 1..Len(attempts') : attempts'[i].ok => i = Len(attempts')
       /\ (attempts # <<>> /\ attempts[Len(attempts)].ok)
             => (attempts' = attempts \/ attempts' = <<>>)
       /\ ssh_pc' \in C32_PastVerdict
             => /\ authenticated'
                /\ attempts' # <<>>
                /\ attempts'[Len(attempts')].ok
      ]_vars

\* A conventional key succeeded after the specified key, the agent and an
\* earlier conventional key had failed, and connect is creating the channel.
C32_ThirdCredentialSucceeded ==
    /\ ssh_pc = "channel"
    /\ Len(attempts) >= 4
    /\ attempts[Len(attempts)].ok
    /\ attempts[Len(attempts)].phase = "fallback"
    /\ attempts[1].phase = "primary"

\* ------------------------------------------- claims on connect_session
\* C33: connect_session never leaves a session in Connecting: after it has
\* returned Ok the session's status is Connected, after it has returned Err
\* for a failing step the status is Error, and no session that exists is
\* left with status Connecting.
C33_ConnectNeverLeavesConnecting ==
    /\ \A id \in Ids :
         sessions[id].present => sessions[id].status # "Connecting"
    /\ term_reply.op = "connect_session"
         => sessions[term_reply.id].status =
              IF term_reply.ok THEN "Connected" ELSE "Error"

\* ---------------------------------------------------------------------
\* ssh.rs: the terminal reader task of a connection (488-553).

\* The k-th reader task spawned for id.
Task(id, k) == reader_tasks[id][k]

TaskIds(id) == 1..Len(reader_tasks[id])

\* The task moves on; nothing else changes.
TaskGoes(id, k, pc) ==
    reader_tasks' = [reader_tasks EXCEPT ![id][k].pc = pc]

\* Line 500: the sleep of one second before the loop.
ReaderTaskStart(id, k) ==
    /\ k \in TaskIds(id)
    /\ Task(id, k).pc = "spawned"
    /\ TaskGoes(id, k, "read")
    /\ UNCHANGED <<terminal_output, sshVars, notTaskVars>>

\* Lines 507-544, one read in spawn_blocking under the channel mutex and
\* the match on its result: Ok(0) breaks, Ok(n) emits "terminal_output",
\* an error (of the read, or "Channel closed" when the connection's channel
\* is None) is logged and the loop goes on after its sleep.
ReaderTaskRead(id, k) ==
    /\ k \in TaskIds(id)
    /\ Task(id, k).pc = "read"
    /\ IF Task(id, k).channel = "Some"
       THEN \E read_result \in {"eof", "data", "error"} :
              /\ read_result = "data" => terminal_output[id] < MaxReads
              /\ TaskGoes(id, k, IF read_result = "eof" THEN "exited"
                                                        ELSE "sleep")
              /\ terminal_output' =
                   IF read_result = "data"
                   THEN [terminal_output EXCEPT ![id] = @ + 1]
                   ELSE terminal_output
       ELSE /\ TaskGoes(id, k, "sleep")
            /\ UNCHANGED terminal_output
    /\ UNCHANGED <<sshVars, notTaskVars>>

\* Lines 537, 541, 545: the sleeps at the end of an iteration.
ReaderTaskWake(id, k) ==
    /\ k \in TaskIds(id)
    /\ Task(id, k).pc = "sleep"
    /\ TaskGoes(id, k, "read")
    /\ UNCHANGED <<terminal_output, sshVars, notTaskVars>>

\* One session connected through the agent, its reader tasks, disconnects.
NextReader ==
    \/ \E id \in InputIds :
         SshRsConnectCall(id, [kind |-> "Agent", key_path |-> NoPath], {})
    \/ SshRsTransport
    \/ SshRsAuthAgent
    \/ SshRsAuthAgentFallbackKey
    \/ SshRsAuthAgentFailed
    \/ SshRsAuthVerdict
    \/ SshRsChannelSetup
    \/ SshRsSftpInit
    \/ SshRsStore
    \/ SshRsFinish
    \/ \E id \in InputIds : SshRsDisconnect(id)
    \/ \E id \in InputIds : \E k \in 1..MaxConns : ReaderTaskStart(id, k)
    \/ \E id \in InputIds : \E k \in 1..MaxConns : ReaderTaskRead(id, k)
    \/ \E id \in InputIds : \E k \in 1..MaxConns : ReaderTaskWake(id, k)

\* The tokio runtime runs every spawned task that can go on, every sleep
\* ends and every read returns; a connect call in progress goes on.
FairnessReader ==
    /\ \A id \in InputIds : \A k \in 1..MaxConns :
         /\ WF_vars(ReaderTaskStart(id, k))
         /\ WF_vars(ReaderTaskRead(id, k))
         /\ WF_vars(ReaderTaskWake(id, k))
    /\ WF_vars(SshRsTransport \/ SshRsAuthAgent \/ SshRsAuthAgentFallbackKey
               \/ SshRsAuthAgentFailed \/ SshRsAuthVerdict
               \/ SshRsChannelSetup \/ SshRsSftpInit \/ SshRsStore
               \/ SshRsFinish)

SpecReaderFair == Init /\ [][NextReader]_vars /\ FairnessReader

\* C34: once disconnect has taken and closed the channel of a connection,
\* the reader task spawned for that connection eventually leaves its loop.
C34_ReaderTaskExitsAfterDisconnect ==
    \A id \in InputIds : \A k \in 1..MaxConns :
        (k \in TaskIds(id) /\ Task(id, k).channel = "None")
          ~> (k \in TaskIds(id) /\ Task(id, k).pc = "exited")

\* ---------------------------------------------- claims on accepted input
\* C35: accepted input is eventually delivered; in the form the claim gives
\* as equivalent: once the writer thread of a connection has stopped on a
\* write error, send_input accepts no further input for that connection.
C35_NoAcceptAfterWriterStopped ==
    [][\A c \in Conns :
         (writer_pc[c] = "exited" /\ writer_exit[c] = "error")
           => Len(accepted'[c]) <= Len(accepted[c])]_vars

\* ------------------------------------- claims on status and registry
\* C36: whenever no command is in progress for an id, active_connections
\* records Connected for it exactly when the registry of AppState's
\* SshManager holds a connection for it.
C36_StatusAgreesWithRegistry ==
    \A id \in Ids :
        (connect_pc[id] = "idle" /\ disconnect_pc[id] = "idle")
          => (active_connections[id] = "Connected"
                <=> connections[id] # NoConn)

\* C37: the parts of AppState's SshManager a connect could touch: the
\* registry, the connections with their flags, handles and threads.
C37_ManagerState ==
    <<connections, closer, session_id, flagVars, handleVars, reader_pc,
      reader_exit, writer_pc, writer_exit, writer_rx, input_pc, input_rx,
      buffer>>

\* C37: a connect of SshManager that returns Err leaves the registry as it
\* was: no entry is added, removed or replaced, no thread is spawned or
\* stopped and every connection is untouched; a connect that returns Err
\* has constructed no connection.
C37_FailedConnectChangesNothing ==
    [][\A id \in Ids :
         /\ (connect_pc[id] = "connecting" /\ connect_pc'[id] = "err")
              => UNCHANGED C37_ManagerState
         /\ connect_pc'[id] = "err" => connect_new'[id] = NoConn
      ]_vars

\* A connect on an id that holds a running connection has returned Err and
\* the connection is still stored with its three threads running.
C37_FailedReconnect ==
    \E id \in Ids :
        /\ connect_pc[id] = "err"
        /\ connections[id] # NoConn
        /\ reader_pc[connections[id]] = "running"
        /\ writer_pc[connections[id]] = "running"
        /\ input_pc[connections[id]] = "running"

\* C38: connection c has a pump thread that has not ended.
C38_PumpsRunning(c) ==
    \/ reader_pc[c] \notin {"none", "exited"}
    \/ writer_pc[c] \notin {"none", "exited"}
    \/ input_pc[c] \notin {"none", "exited"}

\* C38: connection c has been closed: flags set, threads ended and joined.
C38_Closed(c) ==
    /\ reader_shutdown[c] /\ writer_shutdown[c] /\ input_shutdown[c]
    /\ ~C38_PumpsRunning(c)
    /\ ~reader_handle[c] /\ ~writer_handle[c] /\ ~input_handle[c]

\* C38, first part: when SshManager::connect returns Ok after displacing a
\* connection, the displaced connection has its three flags set and its
\* three threads joined.
C38_DisplacedClosedOnReturn ==
    [][\A id \in Ids :
         (connect_pc[id] = "dropping" /\ connect_pc'[id] = "ok")
           => C38_Closed(closer.c)]_vars

\* C38: a connection displaced by connect is closed by the time connect
\* returns, and at no moment do the pump threads of two connections of the
\* same id run at once.
C38_OneSetOfPumpsPerId ==
    [][/\ \A id \in Ids :
            (connect_pc[id] = "dropping" /\ connect_pc'[id] = "ok")
              => C38_Closed(closer.c)
       /\ \A c, d \in Conns :
            (c # d /\ session_id'[c] \in Ids
                   /\ session_id'[c] = session_id'[d])
              => ~(C38_PumpsRunning(c)' /\ C38_PumpsRunning(d)')
      ]_vars

\* C39: a disconnect on an id with no registry entry returns the "Session
\* not found" error and changes nothing: the call leaves the registry and
\* every connection as they were, disconnect_session returns the error
\* without writing the status, and the status of an id becomes
\* Disconnected only through a disconnect that removed an entry.
C39_DisconnectAbsentFails ==
    [][\A id \in Ids :
         /\ (/\ connections[id] = NoConn
             /\ disconnect_pc[id] = "idle" /\ disconnect_pc'[id] # "idle")
              => /\ disconnect_pc'[id] = "err"
                 /\ UNCHANGED <<C37_ManagerState, active_connections>>
         /\ (disconnect_pc[id] = "err" /\ disconnect_pc'[id] # "err")
              => /\ disconnect_pc'[id] = "idle"
                 /\ UNCHANGED <<C37_ManagerState, active_connections>>
         /\ (/\ active_connections'[id] = "Disconnected"
             /\ active_connections[id] # "Disconnected")
              => disconnect_pc[id] = "ok"
      ]_vars

\* A second disconnect of a session has returned the error, its status is
\* still Disconnected and the other session's threads are running.
C39_SecondDisconnectFailed ==
    \E id \in Ids : \E c \in Conns :
        /\ disconnect_pc[id] = "err"
        /\ connections[id] = NoConn
        /\ active_connections[id] = "Disconnected"
        /\ session_id[c] \in Ids \ {id}
        /\ connections[session_id[c]] = c
        /\ reader_pc[c] = "running" /\ writer_pc[c] = "running"
        /\ input_pc[c] = "running"

====
